---- MODULE Spec2Model ----
(***************************************************************************)
(* A model of the demyst / scilint analysis engine: the dimension algebra  *)
(* and unit inference of guards/unit_guard.py, the two-pass mirage         *)
(* detector of engine/mirage_detector.py and the transpiler of             *)
(* scilint/engine/transpiler.py.                                           *)
(***************************************************************************)
EXTENDS Integers, Sequences, FiniteSets, TLC

VARIABLES
    da, db, dop,                \* dimension algebra: two operands, last operation
    prog, type_environment, violations, current_function, old_functions, upc,
    analysis,                   \* what UnitGuard.analyze returned
    tree, marked, check_variance_context, mirages, variance_contexts, det_function,
    result, ncalls,
    t_source, t_target, t_mirages, transformations, t_output, t_ncalls,
    dry_run, interactive,       \* ScilintFixer: its two options,
    f_lines, f_before,          \* the file now and before the last fix_file,
    f_violations, f_responses,  \* the last call's violations and answers typed,
    f_returned, f_wrote, f_ncalls,  \* what it returned, whether it wrote
    tool_name, tool_code, tool_rules, tool_leakage, tool_out,  \* agent tools
    vt_shape, vt_axis,          \* one VariationTensor: its data's shape, its axis,
    vt_history, vt_before,      \* its history now and before the last call,
    vt_op, vt_arg, vt_outcome   \* the last call, its argument and how it ended

algVars == <<da, db, dop>>
unitVars == <<prog, type_environment, violations, current_function, old_functions, upc,
              analysis>>
mirVars == <<tree, marked, check_variance_context, mirages, variance_contexts,
             det_function, result, ncalls>>
trVars == <<t_source, t_target, t_mirages, transformations, t_output, t_ncalls>>
fixVars == <<dry_run, interactive, f_lines, f_before, f_violations, f_responses,
             f_returned, f_wrote, f_ncalls>>
toolVars == <<tool_name, tool_code, tool_rules, tool_leakage, tool_out>>
vtVars == <<vt_shape, vt_axis, vt_history, vt_before, vt_op, vt_arg, vt_outcome>>
vars == <<algVars, unitVars, mirVars, trVars, fixVars, toolVars, vtVars>>

\* Python's None, for an absent name and for an absent dimension.
None == "None"
NoDim == <<>>

(***************************************************************************)
(* Dimension: a tuple of seven integer exponents (L, M, T, I, Theta, N, J) *)
(***************************************************************************)
NBase == 7

\* __post_init__: a shorter tuple is padded with zeros.
Dimension(exponents) ==
    IF Len(exponents) # NBase
    THEN exponents \o [i \in 1..(NBase - Len(exponents)) |-> 0]
    ELSE exponents

dimensionless == Dimension(<<0, 0, 0, 0, 0, 0, 0>>)
length == Dimension(<<1, 0, 0, 0, 0, 0, 0>>)
mass == Dimension(<<0, 1, 0, 0, 0, 0, 0>>)
time == Dimension(<<0, 0, 1, 0, 0, 0, 0>>)
temperature == Dimension(<<0, 0, 0, 0, 1, 0, 0>>)
velocity == Dimension(<<1, 0, -1, 0, 0, 0, 0>>)
acceleration == Dimension(<<1, 0, -2, 0, 0, 0, 0>>)
force == Dimension(<<1, 1, -2, 0, 0, 0, 0>>)
energy == Dimension(<<2, 1, -2, 0, 0, 0, 0>>)
power == Dimension(<<2, 1, -3, 0, 0, 0, 0>>)
pressure == Dimension(<<-1, 1, -2, 0, 0, 0, 0>>)

\* zip(self.exponents, other.exponents) stops at the shorter tuple.
ZipLen(x, y) == IF Len(x) <= Len(y) THEN Len(x) ELSE Len(y)

Dimension_mul(self, other) ==
    Dimension([i \in 1..ZipLen(self, other) |-> self[i] + other[i]])

Dimension_truediv_adds(self, other) ==
    Dimension([i \in 1..ZipLen(self, other) |-> self[i] + other[i]])

Dimension_truediv(self, other) ==
    Dimension([i \in 1..ZipLen(self, other) |-> self[i] - other[i]])

Dimension_pow(self, n) ==
    Dimension([i \in 1..Len(self) |-> self[i] * n])

\* __eq__: False when the other object is no Dimension (None).
Dimension_eq(self, other) ==
    IF other = NoDim THEN FALSE ELSE self = other

is_dimensionless(self) == \A i \in 1..Len(self) : self[i] = 0

(***************************************************************************)
(* Identifiers.  A name is a string; Spelling gives its characters, which  *)
(* is what the regular expressions of UNIT_PATTERNS are matched against.   *)
(***************************************************************************)
Spelling == [
    mass |-> <<"m","a","s","s">>,
    time |-> <<"t","i","m","e">>,
    accel |-> <<"a","c","c","e","l">>,
    force |-> <<"f","o","r","c","e">>,
    result |-> <<"r","e","s","u","l","t">>,
    weight |-> <<"w","e","i","g","h","t">>,
    c |-> <<"c">>,
    n |-> <<"n">>,
    t |-> <<"t">>,
    delta_t |-> <<"d","e","l","t","a","_","t">>,
    masses |-> <<"m","a","s","s","e","s">>,
    kgs |-> <<"k","g","s">>,
    total_mass |-> <<"t","o","t","a","l","_","m","a","s","s">>,
    f |-> <<"f">>,
    g |-> <<"g">>,
    sqrt |-> <<"s","q","r","t">>,
    sin |-> <<"s","i","n">>,
    np |-> <<"n","p">>
]

UpperCase == <<"A","B","C","D","E","F","G","H","I","J","K","L","M",
               "N","O","P","Q","R","S","T","U","V","W","X","Y","Z">>
LowerCase == <<"a","b","c","d","e","f","g","h","i","j","k","l","m",
               "n","o","p","q","r","s","t","u","v","w","x","y","z">>

\* re.IGNORECASE: characters are compared after case folding.
Fold(ch) ==
    IF \E i \in 1..26 : UpperCase[i] = ch
    THEN LowerCase[CHOOSE i \in 1..26 : UpperCase[i] = ch]
    ELSE ch

\* Each entry is the pattern (?:^|_)(w1|w2|...)(?:_|$), or with plural
\* (?:^|_)(w1|w2|...)(?:_|s|$), in the order of the dictionary.
UNIT_PATTERNS == <<
    [dim |-> length, plural |-> FALSE, words |-> <<
        <<"d","i","s","t","a","n","c","e">>,
        <<"l","e","n","g","t","h">>,
        <<"h","e","i","g","h","t">>,
        <<"w","i","d","t","h">>,
        <<"d","e","p","t","h">>,
        <<"r","a","d","i","u","s">>,
        <<"d","i","a","m","e","t","e","r">>,
        <<"p","o","s","i","t","i","o","n">>,
        <<"x">>,
        <<"y">>,
        <<"z">>>>],
    [dim |-> length, plural |-> TRUE, words |-> <<
        <<"m","e","t","e","r">>,
        <<"m","e","t","r","e">>,
        <<"m">>>>],
    [dim |-> length, plural |-> TRUE, words |-> <<
        <<"k","m">>,
        <<"c","m">>,
        <<"m","m">>,
        <<"n","m">>,
        <<"u","m">>>>],
    [dim |-> mass, plural |-> FALSE, words |-> <<
        <<"m","a","s","s">>,
        <<"w","e","i","g","h","t">>>>],
    [dim |-> mass, plural |-> TRUE, words |-> <<
        <<"k","g">>,
        <<"g","r","a","m">>,
        <<"g">>>>],
    [dim |-> time, plural |-> FALSE, words |-> <<
        <<"t","i","m","e">>,
        <<"d","u","r","a","t","i","o","n">>,
        <<"p","e","r","i","o","d">>,
        <<"d","t">>,
        <<"d","e","l","t","a","_","t">>>>],
    [dim |-> time, plural |-> TRUE, words |-> <<
        <<"s","e","c","o","n","d">>,
        <<"s","e","c">>,
        <<"s">>,
        <<"m","i","n","u","t","e">>,
        <<"m","i","n">>,
        <<"h","o","u","r">>,
        <<"h","r">>>>],
    [dim |-> temperature, plural |-> FALSE, words |-> <<
        <<"t","e","m","p">>,
        <<"t","e","m","p","e","r","a","t","u","r","e">>,
        <<"T">>>>],
    [dim |-> temperature, plural |-> TRUE, words |-> <<
        <<"k","e","l","v","i","n">>,
        <<"c","e","l","s","i","u","s">>,
        <<"K">>>>],
    [dim |-> velocity, plural |-> FALSE, words |-> <<
        <<"v","e","l","o","c","i","t","y">>,
        <<"s","p","e","e","d">>,
        <<"v">>,
        <<"v","e","l">>>>],
    [dim |-> velocity, plural |-> TRUE, words |-> <<
        <<"m","_","p","e","r","_","s">>,
        <<"m","p","s">>>>],
    [dim |-> acceleration, plural |-> FALSE, words |-> <<
        <<"a","c","c","e","l","e","r","a","t","i","o","n">>,
        <<"a","c","c","e","l">>,
        <<"a">>>>],
    [dim |-> force, plural |-> FALSE, words |-> <<
        <<"f","o","r","c","e">>,
        <<"F">>>>],
    [dim |-> force, plural |-> TRUE, words |-> <<
        <<"n","e","w","t","o","n">>,
        <<"N">>>>],
    [dim |-> energy, plural |-> FALSE, words |-> <<
        <<"e","n","e","r","g","y">>,
        <<"E">>,
        <<"w","o","r","k">>,
        <<"W">>>>],
    [dim |-> energy, plural |-> TRUE, words |-> <<
        <<"j","o","u","l","e">>,
        <<"J">>,
        <<"e","v">>,
        <<"e","V">>>>],
    [dim |-> power, plural |-> FALSE, words |-> <<
        <<"p","o","w","e","r">>,
        <<"P">>>>],
    [dim |-> power, plural |-> TRUE, words |-> <<
        <<"w","a","t","t">>,
        <<"W">>>>],
    [dim |-> pressure, plural |-> FALSE, words |-> <<
        <<"p","r","e","s","s","u","r","e">>,
        <<"p">>,
        <<"s","t","r","e","s","s">>>>],
    [dim |-> pressure, plural |-> TRUE, words |-> <<
        <<"p","a","s","c","a","l">>,
        <<"P","a">>,
        <<"b","a","r">>,
        <<"a","t","m">>>>],
    [dim |-> dimensionless, plural |-> FALSE, words |-> <<
        <<"r","a","t","i","o">>,
        <<"f","a","c","t","o","r">>,
        <<"c","o","e","f","f","i","c","i","e","n","t">>,
        <<"c","o","u","n","t">>,
        <<"i","n","d","e","x">>,
        <<"i","d","x">>,
        <<"n">>,
        <<"n","u","m">>>>],
    [dim |-> dimensionless, plural |-> FALSE, words |-> <<
        <<"p","r","o","b","a","b","i","l","i","t","y">>,
        <<"p","r","o","b">>,
        <<"p","_","v","a","l","u","e">>,
        <<"f","r","a","c","t","i","o","n">>,
        <<"p","e","r","c","e","n","t">>>>]
>>

\* The physical constants, looked up by exact (case-sensitive) name.
PHYSICAL_CONSTANTS == [
    c |-> velocity,
    G |-> Dimension(<<3, -1, -2, 0, 0, 0, 0>>),
    h |-> Dimension(<<2, 1, -1, 0, 0, 0, 0>>),
    hbar |-> Dimension(<<2, 1, -1, 0, 0, 0, 0>>),
    k_B |-> Dimension(<<2, 1, -2, 0, -1, 0, 0>>),
    e |-> Dimension(<<0, 0, 1, 1, 0, 0, 0>>),
    pi |-> dimensionless,
    tau |-> dimensionless
]

\* word occurs in chars at position i, ignoring case.
WordAt(chars, i, word) ==
    /\ i + Len(word) - 1 <= Len(chars)
    /\ \A j \in 1..Len(word) : Fold(chars[i + j - 1]) = Fold(word[j])

\* pattern.search(name) for one entry of UNIT_PATTERNS.
PatternSearch(pattern, chars) ==
    \E i \in 1..Len(chars) :
        /\ i = 1 \/ chars[i - 1] = "_"
        /\ \E w \in 1..Len(pattern.words) :
            LET word == pattern.words[w]
                next == i + Len(word)
            IN  /\ WordAt(chars, i, word)
                /\ \/ next = Len(chars) + 1
                   \/ chars[next] = "_"
                   \/ pattern.plural /\ Fold(chars[next]) = "s"

\* UnitInferenceEngine.infer_from_name: constants first, then the first
\* matching pattern in table order, else None.
infer_from_name(name) ==
    IF name \in DOMAIN PHYSICAL_CONSTANTS THEN PHYSICAL_CONSTANTS[name]
    ELSE LET hits == {p \in 1..Len(UNIT_PATTERNS) :
                         PatternSearch(UNIT_PATTERNS[p], Spelling[name])}
         IN  IF hits = {} THEN NoDim
             ELSE UNIT_PATTERNS[CHOOSE p \in hits : \A q \in hits : p <= q].dim

\* infer_from_name over the identifiers of the model, computed once.
InferredFromName ==
    [name \in DOMAIN Spelling \cup DOMAIN PHYSICAL_CONSTANTS |-> infer_from_name(name)]

\* __str__: the symbols in the order of the exponents tuple; 'Θ' is
\* written Theta.
symbols == <<"L", "M", "T", "I", "Theta", "N", "J">>

\* The parts of __str__, left to right: <<sym>> stands for "sym" and
\* <<sym, exp>> for "sym^exp".
RECURSIVE Dimension_parts(_, _)
Dimension_parts(self, i) ==
    IF i > ZipLen(symbols, self) THEN <<>>
    ELSE (IF self[i] = 1 THEN <<(<<symbols[i]>>)>>
          ELSE IF self[i] # 0 THEN <<(<<symbols[i], self[i]>>)>>
          ELSE <<>>)
             \o Dimension_parts(self, i + 1)

\* __str__: "[" + " ".join(parts) + "]", given as the sequence of the parts
\* between the brackets; "[1]" is the single part <<"1">>.
Dimension_str(self) ==
    IF is_dimensionless(self) THEN <<(<<"1">>)>>
    ELSE Dimension_parts(self, 1)

(***************************************************************************)
(* UnitInferenceEngine                                                     *)
(***************************************************************************)
infer_from_operation(op, left, right) ==
    IF left = NoDim \/ right = NoDim THEN NoDim
    ELSE CASE op \in {"Add", "Sub"} ->
                  IF Dimension_eq(left, right) THEN left ELSE NoDim
           [] op = "Mult" -> Dimension_mul(left, right)
           [] op = "Div" -> Dimension_truediv(left, right)
           [] op = "Pow" -> IF is_dimensionless(right) THEN left ELSE NoDim
           [] OTHER -> NoDim

\* register_type: self.type_environment[name] = dimension
register_type(env, name, dimension) ==
    [x \in DOMAIN env \cup {name} |-> IF x = name THEN dimension ELSE env[x]]

\* get_type: the registered dimension, else the one the name suggests.
get_type(env, name) ==
    IF name \in DOMAIN env THEN env[name] ELSE InferredFromName[name]

(***************************************************************************)
(* Syntax trees.  Expression nodes are records tagged by k; a statement    *)
(* carries its line number.                                                *)
(***************************************************************************)
Name(id) == [k |-> "Name", id |-> id]
Constant(ty, v) == [k |-> "Constant", ty |-> ty, v |-> v]
BinOp(left, op, right) == [k |-> "BinOp", left |-> left, op |-> op, right |-> right]
\* A call has positional arguments and keyword arguments (name = value).
keyword(arg, value) == [arg |-> arg, value |-> value]
CallKw(func, args, keywords) ==
    [k |-> "Call", func |-> func, args |-> args, keywords |-> keywords]
Call(func, args) == CallKw(func, args, <<>>)
KeywordValues(keywords) == [i \in 1..Len(keywords) |-> keywords[i].value]
UnaryOp(operand) == [k |-> "UnaryOp", operand |-> operand]
Attribute(value, attr) == [k |-> "Attribute", value |-> value, attr |-> attr]
Compare(left, comparators) == [k |-> "Compare", left |-> left, comparators |-> comparators]
Assign(targets, value, lineno) ==
    [k |-> "Assign", targets |-> targets, value |-> value, lineno |-> lineno]

(***************************************************************************)
(* DimensionalAnalyzer                                                     *)
(***************************************************************************)
\* _get_func_name
get_func_name(node) ==
    CASE node.func.k = "Name" -> node.func.id
      [] node.func.k = "Attribute" -> node.func.attr
      [] OTHER -> None

dimensionless_funcs ==
    {"sin", "cos", "tan", "exp", "log", "log10", "sqrt", "abs", "ceil", "floor", "round"}

RECURSIVE infer_expression_dimension(_, _)
RECURSIVE infer_function_return_dimension(_, _, _)

\* _infer_function_return_dimension: the membership test comes first, so the
\* sqrt branch below it is only reached for names outside dimensionless_funcs.
infer_function_return_dimension(func_name, node, env) ==
    IF func_name \in dimensionless_funcs THEN dimensionless
    ELSE IF func_name = "sqrt" /\ Len(node.args) > 0
    THEN LET arg_dim == infer_expression_dimension(node.args[1], env)
         IN  IF arg_dim # NoDim
             THEN Dimension([i \in 1..Len(arg_dim) |-> arg_dim[i] \div 2])
             ELSE NoDim
    ELSE NoDim

\* _infer_expression_dimension
infer_expression_dimension(node, env) ==
    CASE node.k = "Name" -> get_type(env, node.id)
      [] node.k = "Constant" ->
             IF node.ty \in {"int", "float", "bool"} THEN dimensionless ELSE NoDim
      [] node.k = "BinOp" ->
             infer_from_operation(node.op,
                                  infer_expression_dimension(node.left, env),
                                  infer_expression_dimension(node.right, env))
      [] node.k = "Call" ->
             LET func_name == get_func_name(node)
             IN  IF func_name # None
                 THEN infer_function_return_dimension(func_name, node, env)
                 ELSE NoDim
      [] node.k = "UnaryOp" -> infer_expression_dimension(node.operand, env)
      [] node.k = "Attribute" -> InferredFromName[node.attr]
      [] OTHER -> NoDim

\* expression holds the node whose text the violation quotes.
UnitViolation(violation_type, severity, line, expression, left_dimension, right_dimension) ==
    [violation_type |-> violation_type, severity |-> severity, line |-> line,
     expression |-> expression,
     left_dimension |-> left_dimension, right_dimension |-> right_dimension]

\* The test "left_dim and right_dim and left_dim != right_dim": a Dimension
\* object is always true, None is false.
KnownAndUnequal(left_dim, right_dim) ==
    left_dim # NoDim /\ right_dim # NoDim /\ ~Dimension_eq(left_dim, right_dim)

\* visit_BinOp with the bare test "left_dim != right_dim": None differs from
\* every Dimension, so an unknown operand is reported too.
visit_BinOp_unknown_differs(node, env, line) ==
    LET left_dim == infer_expression_dimension(node.left, env)
        right_dim == infer_expression_dimension(node.right, env)
    IN  IF node.op \in {"Add", "Sub"} /\ left_dim # right_dim
        THEN <<UnitViolation("incompatible_addition", "critical", line, node,
                             left_dim, right_dim)>>
        ELSE <<>>

\* visit_BinOp, without the generic_visit that follows it: the violations
\* this node adds.
visit_BinOp(node, env, line) ==
    LET left_dim == infer_expression_dimension(node.left, env)
        right_dim == infer_expression_dimension(node.right, env)
    IN  IF node.op \in {"Add", "Sub"} /\ KnownAndUnequal(left_dim, right_dim)
        THEN <<UnitViolation("incompatible_addition", "critical", line, node,
                             left_dim, right_dim)>>
        ELSE <<>>

RECURSIVE CompareLoop(_, _, _, _, _)
CompareLoop(node, env, line, left_dim, i) ==
    IF i > Len(node.comparators) THEN <<>>
    ELSE LET right_dim == infer_expression_dimension(node.comparators[i], env)
             here == IF KnownAndUnequal(left_dim, right_dim)
                     THEN <<UnitViolation("incompatible_comparison", "critical",
                                          line, node, left_dim, right_dim)>>
                     ELSE <<>>
         IN  here \o CompareLoop(node, env, line, left_dim, i + 1)

\* visit_Compare, without the generic_visit that follows it.
visit_Compare(node, env, line) ==
    CompareLoop(node, env, line, infer_expression_dimension(node.left, env), 1)

RECURSIVE visit(_, _, _)
RECURSIVE visit_all(_, _, _, _)

\* NodeVisitor.visit on an expression: the node's own handler, then
\* generic_visit over its child nodes in field order.  The result is the
\* sequence of violations appended.
visit(node, env, line) ==
    CASE node.k = "BinOp" ->
             visit_BinOp(node, env, line)
                 \o visit(node.left, env, line) \o visit(node.right, env, line)
      [] node.k = "Compare" ->
             visit_Compare(node, env, line)
                 \o visit(node.left, env, line)
                 \o visit_all(node.comparators, env, line, 1)
      [] node.k = "Call" ->
             visit(node.func, env, line)
                 \o visit_all(node.args, env, line, 1)
                 \o visit_all(KeywordValues(node.keywords), env, line, 1)
      [] node.k = "UnaryOp" -> visit(node.operand, env, line)
      [] node.k = "Attribute" -> visit(node.value, env, line)
      [] OTHER -> <<>>

visit_all(nodes, env, line, i) ==
    IF i > Len(nodes) THEN <<>>
    ELSE visit(nodes[i], env, line) \o visit_all(nodes, env, line, i + 1)

\* How often _infer_expression_dimension is called on the nodes of an
\* expression: node itself is typed n times by the handlers above it and is
\* visited once.  Typing a BinOp or a UnaryOp types its operands, typing a
\* Call or a Compare types none of its children; visit_BinOp and
\* visit_Compare type the operands of the node they visit once more.  The
\* result is the largest count among the node and the nodes below it.
RECURSIVE most_typed(_, _)
RECURSIVE most_typed_all(_, _, _)
Larger(a, b) == IF a >= b THEN a ELSE b

most_typed(node, n) ==
    CASE node.k = "BinOp" ->
             Larger(n, Larger(most_typed(node.left, n + 1),
                              most_typed(node.right, n + 1)))
      [] node.k = "Compare" ->
             Larger(n, Larger(most_typed(node.left, 1),
                              most_typed_all(node.comparators, 1, 1)))
      [] node.k = "Call" ->
             Larger(n, Larger(most_typed(node.func, 0),
                              Larger(most_typed_all(node.args, 0, 1),
                                     most_typed_all(KeywordValues(node.keywords), 0, 1))))
      [] node.k = "UnaryOp" -> Larger(n, most_typed(node.operand, n))
      [] node.k = "Attribute" -> Larger(n, most_typed(node.value, 0))
      [] OTHER -> n

most_typed_all(nodes, n, i) ==
    IF i > Len(nodes) THEN 0
    ELSE Larger(most_typed(nodes[i], n), most_typed_all(nodes, n, i + 1))

\* visit_Assign types node.value once and then visits it.
most_typed_Assign(node) == most_typed(node.value, 1)

\* The loop of visit_Assign with the registration order swapped: the
\* dimension the name suggests is registered when known, the right-hand one
\* only otherwise.
RECURSIVE AssignTargets_name_first(_, _, _, _)
AssignTargets_name_first(st, node, right_dim, i) ==
    IF i > Len(node.targets) THEN st
    ELSE LET name == node.targets[i]
             expected_dim == InferredFromName[name]
             vs == IF KnownAndUnequal(expected_dim, right_dim)
                   THEN Append(st.violations,
                               UnitViolation("dimension_mismatch", "warning",
                                             node.lineno, node, expected_dim,
                                             right_dim))
                   ELSE st.violations
             env == IF expected_dim # NoDim
                    THEN register_type(st.env, name, expected_dim)
                    ELSE IF right_dim # NoDim
                    THEN register_type(st.env, name, right_dim)
                    ELSE st.env
         IN  AssignTargets_name_first([env |-> env, violations |-> vs], node, right_dim, i + 1)

\* The loop of visit_Assign over node.targets, from target i on; st holds
\* the environment and the violations so far.
RECURSIVE AssignTargets(_, _, _, _)
AssignTargets(st, node, right_dim, i) ==
    IF i > Len(node.targets) THEN st
    ELSE LET name == node.targets[i]
             expected_dim == InferredFromName[name]
             vs == IF KnownAndUnequal(expected_dim, right_dim)
                   THEN Append(st.violations,
                               UnitViolation("dimension_mismatch", "warning",
                                             node.lineno, node, expected_dim,
                                             right_dim))
                   ELSE st.violations
             env == IF right_dim # NoDim
                    THEN register_type(st.env, name, right_dim)
                    ELSE IF expected_dim # NoDim
                    THEN register_type(st.env, name, expected_dim)
                    ELSE st.env
         IN  AssignTargets([env |-> env, violations |-> vs], node, right_dim, i + 1)

\* visit_Assign: infer the right side, check and register every target,
\* then generic_visit (the targets are Name nodes; the value is visited).
visit_Assign(st, node) ==
    LET right_dim == infer_expression_dimension(node.value, st.env)
        after == AssignTargets(st, node, right_dim, 1)
    IN  [env |-> after.env,
         violations |-> after.violations \o visit(node.value, after.env, node.lineno)]

\* The loop of visit_FunctionDef over node.args.args.
RECURSIVE RegisterArgs(_, _, _)
RegisterArgs(env, args, i) ==
    IF i > Len(args) THEN env
    ELSE LET dim == InferredFromName[args[i]]
         IN  RegisterArgs(IF dim # NoDim THEN register_type(env, args[i], dim) ELSE env,
                          args, i + 1)

(***************************************************************************)
(* Statements of the trees given to the mirage detector                    *)
(***************************************************************************)
Expr(value, lineno) == [k |-> "Expr", value |-> value, lineno |-> lineno]
FunctionDef(name, lineno, body) ==
    [k |-> "FunctionDef", name |-> name, lineno |-> lineno, body |-> body]

(***************************************************************************)
(* VarianceContextCollector                                                *)
(***************************************************************************)
VARIANCE_OPS == {"std", "var", "nanstd", "nanvar", "std_", "var_"}

\* self.variance_contexts[key].add(lineno), the key created when missing
AddContext(contexts, key, lineno) ==
    [x \in DOMAIN contexts \cup {key} |->
        IF x = key
        THEN (IF key \in DOMAIN contexts THEN contexts[key] ELSE {}) \cup {lineno}
        ELSE contexts[x]]

\* VarianceContextCollector.visit_Call up to its generic_visit; self holds
\* variance_contexts and current_function.
collector_visit_Call(self, node, lineno) ==
    LET is_attr == node.func.k = "Attribute"
        on_numpy == /\ is_attr
                    /\ node.func.value.k = "Name"
                    /\ node.func.value.id \in {"np", "numpy"}
        is_variance_op == is_attr /\ node.func.attr \in VARIANCE_OPS
        var_name == IF on_numpy
                    THEN (IF Len(node.args) > 0 /\ node.args[1].k = "Name"
                          THEN node.args[1].id ELSE None)
                    ELSE IF is_attr /\ node.func.value.k = "Name"
                    THEN node.func.value.id
                    ELSE None
    IN  IF is_variance_op
        THEN [self EXCEPT !.variance_contexts =
                  AddContext(@, <<var_name, self.current_function>>, lineno)]
        ELSE self

RECURSIVE collector_visit(_, _, _)
RECURSIVE collector_visit_all(_, _, _, _)
RECURSIVE collector_visit_body(_, _, _)

\* VarianceContextCollector.visit on an expression of line lineno
collector_visit(self, node, lineno) ==
    CASE node.k = "Call" ->
             collector_visit_all(
                 collector_visit_all(
                     collector_visit(collector_visit_Call(self, node, lineno),
                                     node.func, lineno),
                     node.args, lineno, 1),
                 KeywordValues(node.keywords), lineno, 1)
      [] node.k = "Attribute" -> collector_visit(self, node.value, lineno)
      [] node.k = "BinOp" ->
             collector_visit(collector_visit(self, node.left, lineno),
                             node.right, lineno)
      [] node.k = "UnaryOp" -> collector_visit(self, node.operand, lineno)
      [] OTHER -> self

collector_visit_all(self, nodes, lineno, i) ==
    IF i > Len(nodes) THEN self
    ELSE collector_visit_all(collector_visit(self, nodes[i], lineno),
                             nodes, lineno, i + 1)

\* VarianceContextCollector.visit over the statements body[i..]; a
\* FunctionDef is visit_FunctionDef: set the scope, visit the body, restore.
collector_visit_body(self, body, i) ==
    IF i > Len(body) THEN self
    ELSE LET stmt == body[i]
             after ==
                 CASE stmt.k = "FunctionDef" ->
                          LET old_function == self.current_function
                              inner == collector_visit_body(
                                           [self EXCEPT !.current_function = stmt.name],
                                           stmt.body, 1)
                          IN  [inner EXCEPT !.current_function = old_function]
                   [] stmt.k \in {"Expr", "Assign"} ->
                          collector_visit(self, stmt.value, stmt.lineno)
                   [] OTHER -> self
         IN  collector_visit_body(after, body, i + 1)

\* VarianceContextCollector() followed by collector.visit(tree)
CollectorRun(body) ==
    collector_visit_body([variance_contexts |-> <<>>, current_function |-> None],
                         body, 1)

(***************************************************************************)
(* MirageDetector                                                          *)
(***************************************************************************)
VARIANCE_CONTEXT_LINES == 10

Abs(x) == IF x < 0 THEN -x ELSE x

\* MirageDetector(config): check_variance_context is the config entry, True
\* when the config has none.
MirageDetector(check) ==
    [mirages |-> <<>>, current_function |-> None,
     variance_contexts |-> <<>>, check_variance_context |-> check]

\* _has_variance_context with the window one line shorter
has_variance_context_narrow(self, var_name, line) ==
    IF ~self.check_variance_context \/ var_name = None THEN FALSE
    ELSE LET key == <<var_name, self.current_function>>
         IN  /\ key \in DOMAIN self.variance_contexts
             /\ \E variance_line \in self.variance_contexts[key] :
                    Abs(variance_line - line) < VARIANCE_CONTEXT_LINES

\* _has_variance_context with the key looked up in every scope
has_variance_context_any_scope(self, var_name, line) ==
    IF ~self.check_variance_context \/ var_name = None THEN FALSE
    ELSE \E key \in DOMAIN self.variance_contexts :
             /\ key[1] = var_name
             /\ \E variance_line \in self.variance_contexts[key] :
                    Abs(variance_line - line) <= VARIANCE_CONTEXT_LINES

\* _has_variance_context
has_variance_context(self, var_name, line) ==
    IF ~self.check_variance_context \/ var_name = None THEN FALSE
    ELSE LET key == <<var_name, self.current_function>>
         IN  /\ key \in DOMAIN self.variance_contexts
             /\ \E variance_line \in self.variance_contexts[key] :
                    Abs(variance_line - line) <= VARIANCE_CONTEXT_LINES

\* _is_array_like
is_array_like(node) == node.k = "Name"

\* The AST node object of a call: the tree it belongs to and its place.
NodeOf(tid, lineno, node) == <<tid, lineno, node>>

\* MirageDetector.visit_Call up to its generic_visit: the findings appended.
\* A suppressed mean or sum returns before the discretization test.
detector_visit_Call(self, tid, node, lineno) ==
    LET on_numpy == /\ node.func.k = "Attribute"
                    /\ node.func.value.k = "Name"
                    /\ node.func.value.id \in {"np", "numpy"}
        collapsing == on_numpy /\ node.func.attr \in {"mean", "sum", "argmax", "argmin"}
        var_name == IF Len(node.args) > 0 /\ node.args[1].k = "Name"
                    THEN node.args[1].id ELSE None
        suppressed == /\ collapsing
                      /\ node.func.attr \in {"mean", "sum"}
                      /\ has_variance_context(self, var_name, lineno)
        collapse == IF collapsing /\ ~suppressed
                    THEN <<[type |-> node.func.attr,
                            node |-> NodeOf(tid, lineno, node),
                            line |-> lineno,
                            function |-> self.current_function,
                            variable |-> var_name]>>
                    ELSE <<>>
        discretize == IF /\ ~suppressed
                         /\ node.func.k = "Name"
                         /\ node.func.id \in {"round", "int"}
                         /\ Len(node.args) > 0
                         /\ is_array_like(node.args[1])
                      THEN <<[type |-> "premature_discretization",
                              node |-> NodeOf(tid, lineno, node),
                              line |-> lineno,
                              function |-> self.current_function]>>
                      ELSE <<>>
    IN  [self EXCEPT !.mirages = @ \o collapse \o discretize]

RECURSIVE detector_visit(_, _, _, _)
RECURSIVE detector_visit_all(_, _, _, _, _)
RECURSIVE detector_visit_body(_, _, _, _)

\* MirageDetector.visit on an expression of line lineno
detector_visit(self, tid, node, lineno) ==
    CASE node.k = "Call" ->
             detector_visit_all(
                 detector_visit_all(
                     detector_visit(detector_visit_Call(self, tid, node, lineno),
                                    tid, node.func, lineno),
                     tid, node.args, lineno, 1),
                 tid, KeywordValues(node.keywords), lineno, 1)
      [] node.k = "Attribute" -> detector_visit(self, tid, node.value, lineno)
      [] node.k = "BinOp" ->
             detector_visit(detector_visit(self, tid, node.left, lineno),
                            tid, node.right, lineno)
      [] node.k = "UnaryOp" -> detector_visit(self, tid, node.operand, lineno)
      [] OTHER -> self

detector_visit_all(self, tid, nodes, lineno, i) ==
    IF i > Len(nodes) THEN self
    ELSE detector_visit_all(detector_visit(self, tid, nodes[i], lineno),
                            tid, nodes, lineno, i + 1)

\* visit_FunctionDef leaving the scope at module level instead of restoring
\* the scope it was entered in
RECURSIVE detector_visit_body_scope_dropped(_, _, _, _)
detector_visit_body_scope_dropped(self, tid, body, i) ==
    IF i > Len(body) THEN self
    ELSE LET stmt == body[i]
             after ==
                 CASE stmt.k = "FunctionDef" ->
                          LET inner == detector_visit_body_scope_dropped(
                                           [self EXCEPT !.current_function = stmt.name],
                                           tid, stmt.body, 1)
                          IN  [inner EXCEPT !.current_function = None]
                   [] stmt.k \in {"Expr", "Assign"} ->
                          detector_visit(self, tid, stmt.value, stmt.lineno)
                   [] OTHER -> self
         IN  detector_visit_body_scope_dropped(after, tid, body, i + 1)

\* MirageDetector.visit over the statements body[i..]; a FunctionDef is
\* visit_FunctionDef: set the scope, visit the body, restore.
detector_visit_body(self, tid, body, i) ==
    IF i > Len(body) THEN self
    ELSE LET stmt == body[i]
             after ==
                 CASE stmt.k = "FunctionDef" ->
                          LET old_function == self.current_function
                              inner == detector_visit_body(
                                           [self EXCEPT !.current_function = stmt.name],
                                           tid, stmt.body, 1)
                          IN  [inner EXCEPT !.current_function = old_function]
                   [] stmt.k \in {"Expr", "Assign"} ->
                          detector_visit(self, tid, stmt.value, stmt.lineno)
                   [] OTHER -> self
         IN  detector_visit_body(after, tid, body, i + 1)

\* MirageDetector.analyze: the collector pass when variance contexts are
\* checked, then self.visit(tree); self.mirages is what is returned.
analyze(self, t) ==
    LET prepared ==
            IF self.check_variance_context
            THEN [self EXCEPT !.variance_contexts = CollectorRun(t.body).variance_contexts]
            ELSE self
    IN  detector_visit_body(prepared, t.id, t.body, 1)

(***************************************************************************)
(* Transpiler.  A source text is the statements it parses to and its       *)
(* layout: "unparsed" is the text ast.unparse writes for those statements, *)
(* "written" is any other text (comments, spacing) that parses to them.    *)
(***************************************************************************)
Source(body, layout) == [body |-> body, layout |-> layout]

\* ast.parse keeps the statements and forgets the layout
parse(source) == source.body

\* ast.unparse writes the statements in its own layout
unparse(body) == Source(body, "unparsed")

\* transpile_source(source) without a target line has target_line None,
\* written 0 here; the lines of a text start at 1.
NoTarget == 0

\* the filter left out: every finding is kept
OnTargetLine_unfiltered(found, target_line) == found

\* [m for m in mirages if m['line'] == target_line]
OnTargetLine(found, target_line) ==
    IF target_line /= NoTarget
    THEN SelectSeq(found, LAMBDA m : m.line = target_line)
    ELSE found

\* The operation a call site is flagged for, None when it is not a call the
\* engine rewrites.
site_kind(node) ==
    IF /\ node.func.k = "Attribute"
       /\ node.func.value.k = "Name"
       /\ node.func.value.id \in {"np", "numpy"}
       /\ node.func.attr \in {"mean", "sum", "argmax", "argmin"}
    THEN node.func.attr
    ELSE IF node.func.k = "Name" /\ node.func.id \in {"round", "int"} /\ Len(node.args) > 0
    THEN "premature_discretization"
    ELSE None

\* A call site is targeted when a supplied finding names its line and kind.
is_target(targets, node, lineno) ==
    \E i \in 1..Len(targets) :
        targets[i].line = lineno /\ targets[i].type = site_kind(node)

\* op(expr, ...extra) becomes Wrapper(expr, ...extra).collapse('op') and a
\* discretization op(x) becomes Wrapper(x).discretize('op').
wrap(node) ==
    IF site_kind(node) = "premature_discretization"
    THEN Call(Attribute(CallKw(Name("VariationTensor"), node.args, node.keywords),
                        "discretize"),
              <<Constant("str", node.func.id)>>)
    ELSE Call(Attribute(CallKw(Name("VariationTensor"), node.args, node.keywords),
                        "collapse"),
              <<Constant("str", node.func.attr)>>)

\* VariationTransformer(targets).visit over the statements body[i..]: the
\* targeted call sites are replaced, everything else is kept.
RECURSIVE transformer_visit_body(_, _, _)
transformer_visit_body(targets, body, i) ==
    IF i > Len(body) THEN <<>>
    ELSE LET stmt == body[i]
             after ==
                 CASE stmt.k = "FunctionDef" ->
                          [stmt EXCEPT !.body = transformer_visit_body(targets, @, 1)]
                   [] stmt.k \in {"Expr", "Assign"} ->
                          IF stmt.value.k = "Call"
                             /\ is_target(targets, stmt.value, stmt.lineno)
                          THEN [stmt EXCEPT !.value = wrap(@)]
                          ELSE stmt
                   [] OTHER -> stmt
         IN  <<after>> \o transformer_visit_body(targets, body, i + 1)

\* self.transformations after a rewrite
TransformationRecords(found) ==
    [i \in 1..Len(found) |->
        [type |-> found[i].type,
         line |-> found[i].line,
         function |-> found[i].function,
         transformation |-> <<found[i].type, "-> VariationTensor">>]]

\* transpile_source handing the detector's whole list to the transformer and
\* to the records, the filtered list being used for the emptiness test only.
transpile_source_all_findings(self, tid, source, target_line) ==
    LET t == parse(source)
        detector == detector_visit_body(self.detector, tid, t, 1)
        found == OnTargetLine(detector.mirages, target_line)
    IN  IF found = <<>>
        THEN [detector |-> detector,
              transformations |-> self.transformations,
              output |-> source]
        ELSE [detector |-> detector,
              transformations |-> TransformationRecords(detector.mirages),
              output |-> unparse(transformer_visit_body(detector.mirages, t, 1))]

\* transpile_source without the transformer's visit: the tree is written
\* back as it was parsed.
transpile_source_untransformed(self, tid, source, target_line) ==
    LET t == parse(source)
        detector == detector_visit_body(self.detector, tid, t, 1)
        found == OnTargetLine(detector.mirages, target_line)
    IN  IF found = <<>>
        THEN [detector |-> detector,
              transformations |-> self.transformations,
              output |-> source]
        ELSE [detector |-> detector,
              transformations |-> TransformationRecords(found),
              output |-> unparse(t)]

\* Transpiler.transpile_source on a transpiler whose detector holds the
\* findings detected and whose transformation list is recorded: the
\* detector visits the tree tid, and the text is rewritten when the
\* findings, filtered by the target line, are not empty.
transpile_source(self, tid, source, target_line) ==
    LET t == parse(source)
        detector == detector_visit_body(self.detector, tid, t, 1)
        found == OnTargetLine(detector.mirages, target_line)
    IN  IF found = <<>>
        THEN [detector |-> detector,
              transformations |-> self.transformations,
              output |-> source]
        ELSE [detector |-> detector,
              transformations |-> TransformationRecords(found),
              output |-> unparse(transformer_visit_body(found, t, 1))]

(***************************************************************************)
(* UnitGuard: the summary and the violation dictionaries of analyze        *)
(***************************************************************************)
CountSeverity(vs, severity) ==
    Cardinality({i \in 1..Len(vs) : vs[i].severity = severity})

generate_summary_fail_on_warning(vs, env) ==
    LET critical == CountSeverity(vs, "critical")
        warning == CountSeverity(vs, "warning")
    IN  [total_violations |-> Len(vs),
         critical_count |-> critical,
         warning_count |-> warning,
         variables_typed |-> Cardinality(DOMAIN env),
         verdict |-> IF critical > 0 \/ warning > 0 THEN "FAIL"
                     ELSE "PASS"]

\* _generate_summary; the verdict is given by the word its text starts with.
generate_summary(vs, env) ==
    LET critical == CountSeverity(vs, "critical")
        warning == CountSeverity(vs, "warning")
    IN  [total_violations |-> Len(vs),
         critical_count |-> critical,
         warning_count |-> warning,
         variables_typed |-> Cardinality(DOMAIN env),
         verdict |-> IF critical > 0 THEN "FAIL"
                     ELSE IF warning > 0 THEN "WARNING"
                     ELSE "PASS"]

\* _violation_to_dict: the dimensions are rendered, None stays None.
violation_to_dict(v) ==
    [type |-> v.violation_type,
     severity |-> v.severity,
     line |-> v.line,
     expression |-> v.expression,
     left_dimension |-> IF v.left_dimension # NoDim
                        THEN Dimension_str(v.left_dimension) ELSE NoDim,
     right_dimension |-> IF v.right_dimension # NoDim
                         THEN Dimension_str(v.right_dimension) ELSE NoDim]

\* [self._violation_to_dict(v) for v in self.analyzer.violations]
RECURSIVE violations_to_dicts(_, _)
violations_to_dicts(vs, i) ==
    IF i > Len(vs) THEN <<>>
    ELSE <<violation_to_dict(vs[i])>> \o violations_to_dicts(vs, i + 1)

(***************************************************************************)
(* ScilintFixer.  A line of the file is the sequence of its pieces: code,  *)
(* blanks, comments and the newline that ends it.                          *)
(***************************************************************************)
Newline == "\n"
Blanks == {" ", "  "}
FixMarker == "# scilint-fix"
TodoComment == "  # TODO: Use VariationTensor(x).collapse('mean') to preserve variance"

\* str.rstrip(): the trailing blanks and newline are dropped.
RECURSIVE rstrip(_)
rstrip(line) ==
    IF line # <<>> /\ line[Len(line)] \in Blanks \cup {Newline}
    THEN rstrip(SubSeq(line, 1, Len(line) - 1))
    ELSE line

\* '# scilint-fix' in original_line; the TODO comment does not hold it.
has_fix_marker(line) == \E i \in 1..Len(line) : line[i] = FixMarker

\* _can_fix
can_fix(violation) == violation.type = "mean"

\* list.sort(key=line, reverse=True) on sorted \o <<v>>: v goes behind the
\* elements whose line is not smaller, the sort being stable.
RECURSIVE insert_reverse(_, _)
insert_reverse(sorted, v) ==
    IF sorted = <<>> THEN <<v>>
    ELSE IF sorted[1].line >= v.line
    THEN <<sorted[1]>> \o insert_reverse(Tail(sorted), v)
    ELSE <<v>> \o sorted

RECURSIVE sort_reverse(_, _)
sort_reverse(vs, i) ==
    IF i = 0 THEN <<>>
    ELSE insert_reverse(sort_reverse(vs, i - 1), vs[i])

\* The loop of fix_file over fixable_violations[i..]; st holds lines and
\* modified, responses the answers typed at the prompts.
RECURSIVE fix_loop(_, _, _, _, _)
fix_loop(self, st, fixable_violations, responses, i) ==
    IF i > Len(fixable_violations) THEN st
    ELSE LET violation == fixable_violations[i]
             line_idx == violation.line - 1
             declined == self.interactive /\ responses[i] # "y"
             applies == /\ ~declined
                        /\ ~self.dry_run
                        /\ 0 <= line_idx /\ line_idx < Len(st.lines)
                        /\ violation.type = "mean"
                        /\ ~has_fix_marker(st.lines[line_idx + 1])
             after == IF applies
                      THEN [lines |-> [st.lines EXCEPT ![line_idx + 1] =
                                          rstrip(@) \o <<TodoComment, Newline>>],
                            modified |-> TRUE]
                      ELSE st
         IN  fix_loop(self, after, fixable_violations, responses, i + 1)

\* fix_file: the file's lines after the call, the value returned and
\* whether the file was written.
fix_file(self, lines, file_violations, responses) ==
    IF file_violations = <<>> \/ SelectSeq(file_violations, can_fix) = <<>>
    THEN [lines |-> lines, returned |-> FALSE, wrote |-> FALSE]
    ELSE LET fixable_violations ==
                 sort_reverse(SelectSeq(file_violations, can_fix),
                              Len(SelectSeq(file_violations, can_fix)))
             st == fix_loop(self, [lines |-> lines, modified |-> FALSE],
                            fixable_violations, responses, 1)
         IN  [lines |-> IF st.modified /\ ~self.dry_run THEN st.lines ELSE lines,
              returned |-> Len(fixable_violations) > 0,
              wrote |-> st.modified /\ ~self.dry_run]

(***************************************************************************)
(* The agent tools: DemystVerifier of agents/langchain.py and the MCP      *)
(* tools of mcp.py.  A code string is given by whether ast.parse accepts   *)
(* it and, when it does, by its statements.                                *)
(***************************************************************************)
Code(body) == [parses |-> TRUE, body |-> body]
Unparseable == [parses |-> FALSE, body |-> <<>>]

\* DimensionalAnalyzer.visit over the statements body[i..]; st holds the
\* environment and the violations.
RECURSIVE analyzer_visit_body(_, _, _)
analyzer_visit_body(st, body, i) ==
    IF i > Len(body) THEN st
    ELSE LET stmt == body[i]
             after ==
                 CASE stmt.k = "Assign" -> visit_Assign(st, stmt)
                   [] stmt.k = "Expr" ->
                          [st EXCEPT !.violations =
                               @ \o visit(stmt.value, st.env, stmt.lineno)]
                   [] stmt.k = "FunctionDef" -> analyzer_visit_body(st, stmt.body, 1)
                   [] OTHER -> st
         IN  analyzer_visit_body(after, body, i + 1)

\* The dictionary analyze returns once the analyzer st has visited the tree.
analysis_of(st) ==
    [violations |-> violations_to_dicts(st.violations, 1),
     inferred_dimensions |-> [name \in DOMAIN st.env |-> Dimension_str(st.env[name])],
     summary |-> generate_summary(st.violations, st.env)]

\* UnitGuard(config).analyze(code) on a new guard
UnitGuard_analyze(code) ==
    IF ~code.parses
    THEN [error |-> "Syntax error",
          violations |-> <<>>,
          inferred_dimensions |-> <<>>,
          summary |-> None]
    ELSE analysis_of(analyzer_visit_body([env |-> <<>>, violations |-> <<>>],
                                         code.body, 1))

\* One issue of _analyze_code for each finding of a check.
Issues(type, found) == [i \in 1..Len(found) |-> [type |-> type]]

\* _analyze_code, check 1: ast.parse and detector.visit inside try/except;
\* an exception is logged and adds nothing.
mirage_issues(rules, code) ==
    IF "mirage" \in rules /\ code.parses
    THEN Issues("Mirage",
                detector_visit_body(MirageDetector(TRUE), 1, code.body, 1).mirages)
    ELSE <<>>

\* _analyze_code, check 2: res.get("violations", []) of guard.analyze
unit_issues(rules, code) ==
    IF "unit" \in rules
    THEN Issues("Units", UnitGuard_analyze(code).violations)
    ELSE <<>>

\* _analyze_code, check 3: the violations of LeakageHunter.analyze, nothing
\* when it raised.
leakage_issues(rules, leakage) ==
    IF "leakage" \in rules /\ leakage = "leak"
    THEN <<[type |-> "Leakage"]>>
    ELSE <<>>

\* _analyze_code: what it returns for the issues the checks collected
analysis_results(issues) == [passed |-> Len(issues) = 0, issues |-> issues]

\* _analyze_code
analyze_code(rules, code, leakage) ==
    analysis_results(mirage_issues(rules, code) \o unit_issues(rules, code)
                         \o leakage_issues(rules, leakage))

\* DemystVerifier._run after _analyze_code: the first words of the text
\* returned, and the verdict of the certificate when one is signed.
verification_text(results, can_sign) ==
    IF results.passed
    THEN [text |-> "VERIFICATION PASSED",
          certificate |-> IF can_sign THEN "PASS" ELSE None,
          issues |-> results.issues]
    ELSE [text |-> "VERIFICATION FAILED",
          certificate |-> None,
          issues |-> results.issues]

\* DemystVerifier._run
DemystVerifier_run(rules, code, leakage, can_sign) ==
    verification_text(analyze_code(rules, code, leakage), can_sign)

\* mcp.check_units after guard.analyze: the JSON object returned
units_result(unit_analysis) ==
    [consistent |-> Len(unit_analysis.violations) = 0,
     violations |-> unit_analysis.violations,
     inferred_dimensions |-> unit_analysis.inferred_dimensions]

\* mcp.check_units
check_units(code) == units_result(UnitGuard_analyze(code))

\* mcp.detect_mirage after detector.visit: the JSON object returned
mirage_result(found) ==
    [has_mirages |-> found # <<>>,
     mirages |-> [i \in 1..Len(found) |->
                     [type |-> found[i].type, line |-> found[i].line,
                      function |-> found[i].function]],
     recommendations |-> IF found # <<>> THEN 2 ELSE 0]

\* mcp.detect_mirage
detect_mirage(code) ==
    IF ~code.parses THEN [error |-> "Syntax error"]
    ELSE mirage_result(detector_visit_body(MirageDetector(TRUE), 1, code.body, 1).mirages)

(***************************************************************************)
(* Bounds and vocabulary                                                   *)
(***************************************************************************)
MaxExp == 2         \* largest exponent magnitude kept as an operand
MaxStmts == 3       \* statements in one analysed module

NamedDimensions ==
    {dimensionless, length, mass, time, temperature, velocity, acceleration,
     force, energy, power, pressure}

InRange(d) == \A i \in 1..Len(d) : d[i] >= -MaxExp /\ d[i] <= MaxExp

Targets == {"mass", "time", "accel", "force", "result"}

Values ==
    {Constant("int", 10),
     Constant("int", 5),
     Constant("float", 98),
     Name("time"),
     BinOp(Name("mass"), "Add", Name("time")),
     BinOp(Name("mass"), "Mult", Name("accel")),
     BinOp(Name("result"), "Add", Name("mass")),
     BinOp(Name("mass"), "Sub", Name("weight")),
     BinOp(BinOp(Name("mass"), "Add", Name("time")), "Sub", Name("result"))}

FunctionDefs ==
    {[name |-> "f", args |-> <<>>],
     [name |-> "f", args |-> <<"mass", "result">>],
     [name |-> "g", args |-> <<"time">>]}

\* The calls the analysed trees are made of.
NpCall(op, arg) == Call(Attribute(Name("np"), op), <<arg>>)
MethodCall(obj, op) == Call(Attribute(Name(obj), op), <<>>)
NameCall(fn, arg) == Call(Name(fn), <<arg>>)

CollapseOps == {"mean", "sum", "argmax", "argmin"}

CollapseCalls ==
    {NpCall(op, Name("x")) : op \in CollapseOps}
        \cup {NpCall("mean", BinOp(Name("x"), "Add", Constant("int", 1))),
              NameCall("int", Name("x")),
              NameCall("round", Name("x")),
              MethodCall("x", "mean"),
              NameCall("mean", Name("x"))}

VarianceCalls ==
    {NpCall("std", Name("x")), MethodCall("x", "var"), NpCall("std", Name("y"))}

PairedCalls ==
    {NpCall("mean", Name("x")), NpCall("sum", Name("x")), NpCall("argmax", Name("x")),
     NpCall("mean", BinOp(Name("x"), "Add", Constant("int", 1)))}

\* A collapsing call and a variance call on adjacent lines, in both orders.
Pairs == (PairedCalls \X VarianceCalls) \cup (VarianceCalls \X PairedCalls)

\* The pairs placed at the edge of the context window.
WindowPairs ==
    {<<NpCall("mean", Name("x")), NpCall("std", Name("x"))>>,
     <<NpCall("std", Name("x")), NpCall("mean", Name("x"))>>,
     <<NpCall("sum", Name("x")), MethodCall("x", "var")>>,
     <<NpCall("argmax", Name("x")), NpCall("std", Name("x"))>>}

\* The pairs placed in and around function definitions.
ScopedPairs ==
    {<<NpCall("mean", Name("x")), NpCall("std", Name("x"))>>,
     <<NpCall("std", Name("x")), NpCall("mean", Name("x"))>>,
     <<NpCall("argmax", Name("x")), NpCall("std", Name("x"))>>,
     <<NpCall("mean", Name("x")), NpCall("std", Name("y"))>>}

ScopedCalls == {NpCall("mean", Name("x")), NameCall("int", Name("x")), NpCall("std", Name("x"))}

\* Line distances between two statements of the module: the last line
\* inside the context window and the first line outside it.
Gaps == {VARIANCE_CONTEXT_LINES, VARIANCE_CONTEXT_LINES + 1}

\* The module bodies analysed: one call or two, at module level, inside a
\* function, in two functions, or around a nested function.
Bodies ==
    {<<Expr(c, 1)>> : c \in CollapseCalls \cup VarianceCalls}
        \cup {<<FunctionDef("f", 1, <<Expr(c, 2)>>)>> : c \in ScopedCalls}
        \cup {<<Expr(p[1], 1), Expr(p[2], 2)>> : p \in Pairs}
        \cup {<<Expr(p[1], 1), Expr(p[2], 1 + gap)>> : p \in WindowPairs, gap \in Gaps}
        \cup {<<FunctionDef("f", 1, <<Expr(p[1], 2), Expr(p[2], 3)>>)>> : p \in ScopedPairs}
        \cup {<<FunctionDef("f", 1, <<Expr(p[1], 2)>>), Expr(p[2], 3)>> : p \in ScopedPairs}
        \cup {<<FunctionDef("f", 1, <<Expr(p[1], 2)>>),
                FunctionDef("g", 3, <<Expr(p[2], 4)>>)>> : p \in ScopedPairs}
        \cup {<<FunctionDef("f", 1, <<FunctionDef("g", 2, <<Expr(p[1], 3)>>),
                                      Expr(p[2], 4)>>)>> : p \in ScopedPairs}
        \cup {<<FunctionDef("f", 1, <<Assign(<<"mu">>, NpCall("mean", Name("x")), 2),
                                      Assign(<<"sigma">>, NpCall("std", Name("x")), 3)>>)>>,
              <<FunctionDef("f", 1, <<Expr(NpCall("mean", Name("x")), 2),
                                      Expr(NpCall("std", Name("x")), 3)>>),
                FunctionDef("g", 4, <<Expr(NpCall("mean", Name("x")), 5)>>)>>}

\* The line numbers of the statements of a body.
RECURSIVE StmtLines(_, _)
StmtLines(body, i) ==
    IF i > Len(body) THEN {}
    ELSE (IF body[i].k = "FunctionDef" THEN StmtLines(body[i].body, 1)
          ELSE {body[i].lineno})
             \cup StmtLines(body, i + 1)

\* The lines of the source text that end in the suppression comment: none,
\* or the line of one statement.
Markings(body) == {{}} \cup {{l} : l \in StmtLines(body, 1)}

NoTree == [id |-> 0, body |-> <<>>]

MaxCalls == 2       \* analyze calls made on one MirageDetector

\* Calls with arguments after the first: mean(x, axis=1, keepdims=True),
\* sum(x, 0), argmax(x, axis=1).
ExtraArgCalls ==
    {CallKw(Attribute(Name("np"), "mean"), <<Name("x")>>,
            <<keyword("axis", Constant("int", 1)), keyword("keepdims", Constant("bool", 1))>>),
     CallKw(Attribute(Name("np"), "sum"), <<Name("x"), Constant("int", 0)>>, <<>>),
     CallKw(Attribute(Name("np"), "argmax"), <<Name("x")>>,
            <<keyword("axis", Constant("int", 1))>>)}

\* The texts given to the transpiler and the target lines asked for.
Layouts == {"written", "unparsed"}

TranspiledBodies ==
    {<<Expr(c, 1)>> : c \in CollapseCalls \cup VarianceCalls}
        \cup {<<Expr(p[1], 1), Expr(p[2], 2)>> : p \in ScopedPairs}
        \cup {<<FunctionDef("f", 1, <<Expr(p[1], 2), Expr(p[2], 3)>>)>> : p \in ScopedPairs}
        \cup {<<Assign(<<"mu">>, NpCall("std", Name("x")), 1)>>}
        \cup {<<Assign(<<"result">>, c, 1)>> : c \in ExtraArgCalls}
        \cup {<<Expr(c, 1), Expr(NpCall("std", Name("x")), 2)>> : c \in ExtraArgCalls}
        \cup {<<Expr(NpCall("mean", Name("x")), 1), Expr(NameCall("int", Name("x")), 2)>>,
              <<FunctionDef("f", 1, <<Expr(NpCall("sum", Name("x")), 2)>>),
                Expr(NpCall("argmax", Name("x")), 3)>>}

Sources == {Source(body, layout) : body \in TranspiledBodies, layout \in Layouts}

TargetLines == {NoTarget, 1, 2}

NoSource == Source(<<>>, "unparsed")

MaxTranspiles == 2  \* transpile_source calls made on one Transpiler

(***************************************************************************)
(* Idle values of the parts a specification does not exercise              *)
(***************************************************************************)
AlgIdle == da = dimensionless /\ db = dimensionless /\ dop = "idle"

UnitIdle ==
    /\ prog = <<>>
    /\ type_environment = <<>>
    /\ violations = <<>>
    /\ current_function = None
    /\ old_functions = <<>>
    /\ upc = "idle"
    /\ analysis = None

MirIdle ==
    /\ tree = NoTree
    /\ marked = {}
    /\ check_variance_context = TRUE
    /\ mirages = <<>>
    /\ variance_contexts = <<>>
    /\ det_function = None
    /\ result = <<>>
    /\ ncalls = 0

TrIdle ==
    /\ t_source = NoSource
    /\ t_target = NoTarget
    /\ t_mirages = <<>>
    /\ transformations = <<>>
    /\ t_output = NoSource
    /\ t_ncalls = 0

FixIdle ==
    /\ dry_run = FALSE
    /\ interactive = FALSE
    /\ f_lines = <<>>
    /\ f_before = <<>>
    /\ f_violations = <<>>
    /\ f_responses = <<>>
    /\ f_returned = FALSE
    /\ f_wrote = FALSE
    /\ f_ncalls = 0

ToolIdle ==
    /\ tool_name = "idle"
    /\ tool_code = <<>>
    /\ tool_rules = {}
    /\ tool_leakage = "idle"
    /\ tool_out = <<>>

VtIdle ==
    /\ vt_shape = <<>>
    /\ vt_axis = {}
    /\ vt_arg = "idle"
    /\ vt_history = <<>>
    /\ vt_before = <<>>
    /\ vt_op = "idle"
    /\ vt_outcome = "idle"

(***************************************************************************)
(* The dimension algebra applied to operands                               *)
(***************************************************************************)
InitAlgebra ==
    /\ da \in NamedDimensions
    /\ db \in NamedDimensions
    /\ dop = "new"
    /\ UnitIdle /\ MirIdle /\ TrIdle
    /\ FixIdle /\ ToolIdle /\ VtIdle

\* da * db replaces da
Multiply ==
    /\ InRange(Dimension_mul(da, db))
    /\ da' = Dimension_mul(da, db)
    /\ dop' = "mul"
    /\ UNCHANGED <<db, unitVars, mirVars, trVars,
                   fixVars, toolVars, vtVars>>

\* da / db replaces da
Divide ==
    /\ InRange(Dimension_truediv(da, db))
    /\ da' = Dimension_truediv(da, db)
    /\ dop' = "truediv"
    /\ UNCHANGED <<db, unitVars, mirVars, trVars,
                   fixVars, toolVars, vtVars>>

\* da ** n replaces da
Power(n) ==
    /\ InRange(Dimension_pow(da, n))
    /\ da' = Dimension_pow(da, n)
    /\ dop' = "pow"
    /\ UNCHANGED <<db, unitVars, mirVars, trVars,
                   fixVars, toolVars, vtVars>>

\* another named dimension becomes the second operand
Operand(d) ==
    /\ db' = d
    /\ dop' = "new"
    /\ UNCHANGED <<da, unitVars, mirVars, trVars,
                   fixVars, toolVars, vtVars>>

NextAlgebra ==
    \/ Multiply
    \/ Divide
    \/ \E n \in -MaxExp..MaxExp : Power(n)
    \/ \E d \in NamedDimensions : Operand(d)

SpecAlgebra == InitAlgebra /\ [][NextAlgebra]_vars

(***************************************************************************)
(* UnitGuard.analyze: one DimensionalAnalyzer walking one module, a        *)
(* statement at a time in source order.  prog records the statements       *)
(* visited; "end" marks the end of a function body.                        *)
(***************************************************************************)
NStmts == Cardinality({i \in 1..Len(prog) : prog[i].k # "end"})

\* self.analyzer = DimensionalAnalyzer(): a fresh engine, no violations.
InitUnits ==
    /\ prog = <<>>
    /\ type_environment = <<>>
    /\ violations = <<>>
    /\ current_function = None
    /\ old_functions = <<>>
    /\ upc = "visit"
    /\ analysis = None
    /\ AlgIdle /\ MirIdle /\ TrIdle
    /\ FixIdle /\ ToolIdle /\ VtIdle

\* visit_Assign on the next statement of the module or function body
VisitAssign(target, value) ==
    /\ upc = "visit"
    /\ NStmts < MaxStmts
    /\ LET node == Assign(<<target>>, value, NStmts + 1)
           after == visit_Assign([env |-> type_environment,
                                  violations |-> violations], node)
       IN  /\ prog' = Append(prog, node)
           /\ type_environment' = after.env
           /\ violations' = after.violations
    /\ UNCHANGED <<current_function, old_functions, upc, analysis,
                   algVars, mirVars, trVars,
                   fixVars, toolVars, vtVars>>

\* visit_FunctionDef up to its generic_visit: the scope name is saved in
\* the frame's old_function and the parameters are registered.
EnterFunctionDef(def) ==
    /\ upc = "visit"
    /\ NStmts < MaxStmts
    /\ prog' = Append(prog, [k |-> "FunctionDef", name |-> def.name,
                             args |-> def.args, lineno |-> NStmts + 1])
    /\ old_functions' = Append(old_functions, current_function)
    /\ current_function' = def.name
    /\ type_environment' = RegisterArgs(type_environment, def.args, 1)
    /\ UNCHANGED <<violations, upc, analysis, algVars, mirVars, trVars,
                   fixVars, toolVars, vtVars>>

\* visit_FunctionDef after its generic_visit: the saved name is restored.
ExitFunctionDef ==
    /\ upc = "visit"
    /\ old_functions # <<>>
    /\ prog' = Append(prog, [k |-> "end"])
    /\ current_function' = old_functions[Len(old_functions)]
    /\ old_functions' = SubSeq(old_functions, 1, Len(old_functions) - 1)
    /\ UNCHANGED <<type_environment, violations, upc, analysis,
                   algVars, mirVars, trVars,
                   fixVars, toolVars, vtVars>>

\* self.analyzer.visit(tree) returns: the whole module has been walked, and
\* analyze builds the dictionary it returns.
FinishVisit ==
    /\ upc = "visit"
    /\ old_functions = <<>>
    /\ upc' = "done"
    /\ analysis' = [violations |-> violations_to_dicts(violations, 1),
                    inferred_dimensions |->
                        [name \in DOMAIN type_environment |->
                            Dimension_str(type_environment[name])],
                    summary |-> generate_summary(violations, type_environment)]
    /\ UNCHANGED <<prog, type_environment, violations, current_function,
                   old_functions, algVars, mirVars, trVars,
                   fixVars, toolVars, vtVars>>

NextUnits ==
    \/ \E target \in Targets, value \in Values : VisitAssign(target, value)
    \/ \E def \in FunctionDefs : EnterFunctionDef(def)
    \/ ExitFunctionDef
    \/ FinishVisit

SpecUnits == InitUnits /\ [][NextUnits]_vars

(***************************************************************************)
(* The same analysis over modules whose right-hand sides are powers and    *)
(* calls: _infer_expression_dimension on ast.BinOp with ast.Pow and on     *)
(* ast.Call.                                                               *)
(***************************************************************************)
TypedTargets == {"result", "time", "t"}

PowerValues ==
    {BinOp(Name("time"), "Pow", Constant("int", 2)),
     BinOp(Name("force"), "Pow", Constant("int", 1)),
     BinOp(Name("time"), "Pow", Name("mass")),
     BinOp(Name("mass"), "Mult", BinOp(Name("result"), "Pow", Constant("int", 2)))}

CallValues ==
    {Call(Name("sqrt"), <<Name("force")>>),
     Call(Attribute(Name("np"), "sqrt"), <<BinOp(Name("time"), "Mult", Name("time"))>>),
     Call(Name("sqrt"), <<Name("n")>>),
     Call(Name("sin"), <<Name("mass")>>),
     Call(Attribute(Name("np"), "abs"), <<Name("force")>>),
     Call(Name("f"), <<Name("mass")>>)}

TypedValues == PowerValues \cup CallValues \cup {Name("time")}

NextTyping ==
    \/ \E target \in TypedTargets, value \in TypedValues : VisitAssign(target, value)
    \/ FinishVisit

SpecTyping == InitUnits /\ [][NextTyping]_vars

(***************************************************************************)
(* One UnitGuard object on which analyze is called again and again, with   *)
(* sources that parse and sources that do not.  The analyzer variables are *)
(* those of self.analyzer, which analyze replaces only after a successful  *)
(* ast.parse.                                                              *)
(***************************************************************************)
\* UnitGuard.__init__: self.analyzer = None, nothing returned yet.
InitGuard ==
    /\ prog = <<>>
    /\ type_environment = <<>>
    /\ violations = <<>>
    /\ current_function = None
    /\ old_functions = <<>>
    /\ upc = "new"
    /\ analysis = None
    /\ AlgIdle /\ MirIdle /\ TrIdle
    /\ FixIdle /\ ToolIdle /\ VtIdle

\* analyze on a source that parses, up to self.analyzer = DimensionalAnalyzer()
AnalyzeParsed ==
    /\ upc \in {"new", "done", "error"}
    /\ prog' = <<>>
    /\ type_environment' = <<>>
    /\ violations' = <<>>
    /\ current_function' = None
    /\ old_functions' = <<>>
    /\ upc' = "visit"
    /\ analysis' = None
    /\ UNCHANGED <<algVars, mirVars, trVars,
                   fixVars, toolVars, vtVars>>

AnalyzeUnparseable_stale ==
    /\ upc \in {"new", "done", "error"}
    /\ upc' = "error"
    /\ analysis' = [error |-> "Syntax error",
                    violations |-> violations_to_dicts(violations, 1),
                    inferred_dimensions |->
                        [name \in DOMAIN type_environment |->
                            Dimension_str(type_environment[name])],
                    summary |-> None]
    /\ UNCHANGED <<prog, type_environment, violations, current_function,
                   old_functions, algVars, mirVars, trVars,
                   fixVars, toolVars, vtVars>>

\* analyze on a source for which ast.parse raises SyntaxError: the except
\* branch returns at once and self.analyzer is left as it was.
AnalyzeUnparseable ==
    /\ upc \in {"new", "done", "error"}
    /\ upc' = "error"
    /\ analysis' = [error |-> "Syntax error",
                    violations |-> <<>>,
                    inferred_dimensions |-> <<>>,
                    summary |-> None]
    /\ UNCHANGED <<prog, type_environment, violations, current_function,
                   old_functions, algVars, mirVars, trVars,
                   fixVars, toolVars, vtVars>>

GuardTargets == {"mass", "result"}

GuardValues ==
    {Constant("int", 10),
     Name("time"),
     BinOp(Name("mass"), "Add", Name("time"))}

NextGuard ==
    \/ AnalyzeParsed
    \/ AnalyzeUnparseable
    \/ \E target \in GuardTargets, value \in GuardValues : VisitAssign(target, value)
    \/ FinishVisit

SpecGuard == InitGuard /\ [][NextGuard]_vars

(***************************************************************************)
(* One ScilintFixer applied to one file again and again                    *)
(***************************************************************************)
MaxFixes == 2       \* fix_file calls made on the file
MaxViolations == 2  \* violations handed to one fix_file call

FileLines ==
    {<<"np.mean(x)", Newline>>,
     <<"np.mean(x)", "  ", FixMarker, Newline>>,
     <<"y = np.sum(x)", " ", Newline>>,
     <<"np.mean(x)">>}

\* Files of one or two lines; only the last line may lack its newline.
Files ==
    {<<l>> : l \in FileLines}
        \cup {<<k, l>> : k \in {m \in FileLines : m[Len(m)] = Newline}, l \in FileLines}

ViolationsOfFile ==
    {[type |-> ty, line |-> ln] : ty \in {"mean", "sum"}, ln \in 0..2}

ViolationLists ==
    UNION {[1..n -> ViolationsOfFile] : n \in 0..MaxViolations}

\* What is typed at the prompts of an interactive fixer, one answer for each
\* fixable violation; nothing is asked otherwise.
Responses(file_violations) ==
    IF interactive
    THEN [1..Len(SelectSeq(file_violations, can_fix)) -> {"y", "n"}]
    ELSE {<<>>}

\* ScilintFixer(dry_run, interactive) and the file it will be applied to
InitFixer ==
    /\ dry_run \in BOOLEAN
    /\ interactive \in BOOLEAN
    /\ f_lines \in Files
    /\ f_before = f_lines
    /\ f_violations = <<>>
    /\ f_responses = <<>>
    /\ f_returned = FALSE
    /\ f_wrote = FALSE
    /\ f_ncalls = 0
    /\ AlgIdle /\ UnitIdle /\ MirIdle /\ TrIdle /\ ToolIdle /\ VtIdle

TheFixer == [dry_run |-> dry_run, interactive |-> interactive]

\* fixer.fix_file(filepath, violations)
FixFile(file_violations, responses) ==
    /\ f_ncalls < MaxFixes
    /\ LET after == fix_file(TheFixer, f_lines, file_violations, responses)
       IN  /\ f_lines' = after.lines
           /\ f_returned' = after.returned
           /\ f_wrote' = after.wrote
    /\ f_before' = f_lines
    /\ f_violations' = file_violations
    /\ f_responses' = responses
    /\ f_ncalls' = f_ncalls + 1
    /\ UNCHANGED <<dry_run, interactive, algVars, unitVars, mirVars, trVars,
                   toolVars, vtVars>>

NextFixer ==
    \E file_violations \in ViolationLists :
        \E responses \in Responses(file_violations) : FixFile(file_violations, responses)

SpecFixer == InitFixer /\ [][NextFixer]_vars

(***************************************************************************)
(* The agent tools called on one code string after another; every call     *)
(* builds its own guard and detector.                                      *)
(***************************************************************************)
ToolCodes ==
    {Unparseable,
     Code(<<>>),
     Code(<<Assign(<<"result">>, Constant("int", 10), 1)>>),
     Code(<<Assign(<<"result">>, BinOp(Name("mass"), "Add", Name("time")), 1)>>),
     Code(<<Assign(<<"mass">>, Name("time"), 1)>>),
     Code(<<Expr(NpCall("mean", Name("masses")), 1)>>),
     Code(<<Expr(NpCall("mean", Name("masses")), 1),
            Expr(NpCall("std", Name("masses")), 2)>>),
     Code(<<Assign(<<"result">>, BinOp(Name("mass"), "Add", Name("time")), 1),
            Expr(NpCall("sum", Name("masses")), 2)>>)}

RuleNames == {"mirage", "unit", "leakage"}

\* What the leakage check does with a code string: it finds nothing, finds
\* a leak, or raises; in a string that does not parse it finds no leak.
LeakageOutcomes(code) ==
    IF code.parses THEN {"clean", "leak", "raised"} ELSE {"clean", "raised"}

InitTools ==
    /\ ToolIdle
    /\ AlgIdle /\ UnitIdle /\ MirIdle /\ TrIdle /\ FixIdle /\ VtIdle

\* DemystVerifier()._run(code) under a configuration with the rules enabled
Verify(rules, code, leakage, can_sign) ==
    /\ tool_name' = "demyst_verify"
    /\ tool_code' = code
    /\ tool_rules' = rules
    /\ tool_leakage' = leakage
    /\ tool_out' = DemystVerifier_run(rules, code, leakage, can_sign)
    /\ UNCHANGED <<algVars, unitVars, mirVars, trVars, fixVars, vtVars>>

\* check_units(code)
CheckUnits(code) ==
    /\ tool_name' = "check_units"
    /\ tool_code' = code
    /\ tool_rules' = {}
    /\ tool_leakage' = "idle"
    /\ tool_out' = check_units(code)
    /\ UNCHANGED <<algVars, unitVars, mirVars, trVars, fixVars, vtVars>>

\* detect_mirage(code)
DetectMirage(code) ==
    /\ tool_name' = "detect_mirage"
    /\ tool_code' = code
    /\ tool_rules' = {}
    /\ tool_leakage' = "idle"
    /\ tool_out' = detect_mirage(code)
    /\ UNCHANGED <<algVars, unitVars, mirVars, trVars, fixVars, vtVars>>

NextTools ==
    \/ \E rules \in SUBSET RuleNames, code \in ToolCodes, can_sign \in BOOLEAN :
           \E leakage \in LeakageOutcomes(code) : Verify(rules, code, leakage, can_sign)
    \/ \E code \in ToolCodes : CheckUnits(code)
    \/ \E code \in ToolCodes : DetectMirage(code)

SpecTools == InitTools /\ [][NextTools]_vars

(***************************************************************************)
(* VariationTensor: the wrapper the rewritten calls construct.  The data   *)
(* is an array known by its shape; axis is the empty set for None and {n}  *)
(* for axis n.  The floating-point entries of a history record (std_before,*)
(* total_variation, preserved_variance) are left out of the records.       *)
(***************************************************************************)
MaxCollapses == 3   \* records one tensor's history may hold

NoAxis == {}

\* numpy reduces over an axis the array has (or over all of it) and raises
\* AxisError for any other.
AxisValid(shape, axis) == \A n \in axis : n < Len(shape)

\* VariationTensor.__init__
VariationTensor(data_shape, axis) ==
    [shape |-> data_shape, axis |-> axis, _variation_history |-> <<>>]

\* The methods the class defines.
TensorMethods == {"collapse", "ensemble_sum"}

\* VariationTensor.collapse
collapse(self, operation) ==
    IF operation = "mean"
    THEN IF ~AxisValid(self.shape, self.axis)
         THEN [self |-> self, outcome |-> "AxisError"]
         ELSE [self |-> [self EXCEPT !._variation_history =
                             Append(@, [operation |-> "mean",
                                        input_shape |-> self.shape, axis |-> self.axis])],
               outcome |-> "returned"]
    ELSE IF operation = "sum"
    THEN IF ~AxisValid(self.shape, self.axis)
         THEN [self |-> self, outcome |-> "AxisError"]
         ELSE [self |-> [self EXCEPT !._variation_history =
                             Append(@, [operation |-> "sum",
                                        input_shape |-> self.shape, axis |-> self.axis])],
               outcome |-> "returned"]
    ELSE [self |-> self, outcome |-> "ValueError: Unknown operation"]

\* VariationTensor.ensemble_sum
ensemble_sum(self, axis) ==
    IF ~AxisValid(self.shape, axis)
    THEN [self |-> self, outcome |-> "AxisError"]
    ELSE [self |-> [self EXCEPT !._variation_history =
                        Append(@, [operation |-> "ensemble_sum"])],
          outcome |-> "returned"]

\* tensor.<method>(arg): a method the class does not define is an
\* AttributeError and touches nothing.
call_method(self, method, arg) ==
    IF method \notin TensorMethods
    THEN [self |-> self, outcome |-> "AttributeError"]
    ELSE IF method = "collapse" THEN collapse(self, arg)
    ELSE ensemble_sum(self, NoAxis)

Shapes == {<<2>>, <<2, 3>>}
Axes == {NoAxis, {0}, {1}}
DiscretizeKinds == {"int", "round"}

TheTensor == [shape |-> vt_shape, axis |-> vt_axis, _variation_history |-> vt_history]

\* VariationTensor(data, axis=...)
InitTensor ==
    /\ vt_shape \in Shapes
    /\ vt_axis \in Axes
    /\ vt_history = <<>>
    /\ vt_before = <<>>
    /\ vt_op = "__init__"
    /\ vt_arg = "idle"
    /\ vt_outcome = "returned"
    /\ AlgIdle /\ UnitIdle /\ MirIdle /\ TrIdle /\ FixIdle /\ ToolIdle

\* tensor.collapse(operation), with the operations the rewrite emits
Collapse(operation) ==
    /\ Len(vt_history) < MaxCollapses
    /\ vt_op' = "collapse"
    /\ vt_arg' = operation
    /\ vt_before' = vt_history
    /\ vt_history' = call_method(TheTensor, "collapse", operation).self._variation_history
    /\ vt_outcome' = call_method(TheTensor, "collapse", operation).outcome
    /\ UNCHANGED <<vt_shape, vt_axis>>
    /\ UNCHANGED <<algVars, unitVars, mirVars, trVars, fixVars, toolVars>>

\* tensor.discretize(kind), as the rewrite emits for int(...) and round(...)
Discretize(kind) ==
    /\ Len(vt_history) < MaxCollapses
    /\ vt_op' = "discretize"
    /\ vt_arg' = kind
    /\ vt_before' = vt_history
    /\ vt_history' = call_method(TheTensor, "discretize", kind).self._variation_history
    /\ vt_outcome' = call_method(TheTensor, "discretize", kind).outcome
    /\ UNCHANGED <<vt_shape, vt_axis>>
    /\ UNCHANGED <<algVars, unitVars, mirVars, trVars, fixVars, toolVars>>

\* tensor.ensemble_sum(axis)
EnsembleSum(axis) ==
    /\ Len(vt_history) < MaxCollapses
    /\ vt_op' = "ensemble_sum"
    /\ vt_arg' = "axis"
    /\ vt_before' = vt_history
    /\ vt_history' = ensemble_sum(TheTensor, axis).self._variation_history
    /\ vt_outcome' = ensemble_sum(TheTensor, axis).outcome
    /\ UNCHANGED <<vt_shape, vt_axis>>
    /\ UNCHANGED <<algVars, unitVars, mirVars, trVars, fixVars, toolVars>>

NextTensor ==
    \/ \E operation \in CollapseOps : Collapse(operation)
    \/ \E kind \in DiscretizeKinds : Discretize(kind)
    \/ \E axis \in Axes : EnsembleSum(axis)

SpecTensor == InitTensor /\ [][NextTensor]_vars

(***************************************************************************)
(* MirageDetector: one detector object, analyze called on it repeatedly.   *)
(* tree is the tree of the latest call, marked the lines of its source     *)
(* text that carry the suppression comment, result the list returned.      *)
(***************************************************************************)
\* MirageDetector(config): __init__
InitMirage ==
    /\ tree = NoTree
    /\ marked = {}
    /\ check_variance_context \in BOOLEAN
    /\ mirages = <<>>
    /\ variance_contexts = <<>>
    /\ det_function = None
    /\ result = <<>>
    /\ ncalls = 0
    /\ AlgIdle /\ UnitIdle /\ TrIdle
    /\ FixIdle /\ ToolIdle /\ VtIdle

Detector ==
    [mirages |-> mirages, current_function |-> det_function,
     variance_contexts |-> variance_contexts,
     check_variance_context |-> check_variance_context]

\* detector.analyze(t) and what it leaves in the detector
AnalyzeTree(t, marking) ==
    LET after == analyze(Detector, t)
    IN  /\ tree' = t
        /\ mirages' = after.mirages
        /\ variance_contexts' = after.variance_contexts
        /\ det_function' = after.current_function
        /\ result' = after.mirages
        /\ ncalls' = ncalls + 1
        /\ marked' \in marking
        /\ UNCHANGED <<check_variance_context, algVars, unitVars, trVars,
                   fixVars, toolVars, vtVars>>

\* a source text is parsed and the tree analysed
Analyze(body) ==
    /\ ncalls < MaxCalls
    /\ AnalyzeTree([id |-> ncalls + 1, body |-> body], Markings(body))

\* the tree of the previous call is analysed again
AnalyzeAgain ==
    /\ ncalls > 0
    /\ ncalls < MaxCalls
    /\ AnalyzeTree(tree, {marked})

NextMirage ==
    \/ \E body \in Bodies : Analyze(body)
    \/ AnalyzeAgain

SpecMirage == InitMirage /\ [][NextMirage]_vars

(***************************************************************************)
(* One Transpiler given one source text after another                      *)
(***************************************************************************)
\* Transpiler(): a detector of its own and no transformations
InitTranspile ==
    /\ TrIdle
    /\ AlgIdle /\ UnitIdle /\ MirIdle
    /\ FixIdle /\ ToolIdle /\ VtIdle

TheTranspiler ==
    [detector |-> [MirageDetector(TRUE) EXCEPT !.mirages = t_mirages],
     transformations |-> transformations]

\* transpiler.transpile_source(source, target_line)
Transpile(source, target_line) ==
    /\ t_ncalls < MaxTranspiles
    /\ LET after == transpile_source(TheTranspiler, t_ncalls + 1, source, target_line)
       IN  /\ t_source' = source
           /\ t_target' = target_line
           /\ t_mirages' = after.detector.mirages
           /\ transformations' = after.transformations
           /\ t_output' = after.output
           /\ t_ncalls' = t_ncalls + 1
    /\ UNCHANGED <<algVars, unitVars, mirVars,
                   fixVars, toolVars, vtVars>>

NextTranspile ==
    \E source \in Sources : \E target_line \in TargetLines :
        Transpile(source, target_line)

SpecTranspile == InitTranspile /\ [][NextTranspile]_vars

(***************************************************************************)
(* Properties of the dimension algebra                                     *)
(***************************************************************************)
\* C2: for the operands a and b, multiply(a,b) = multiply(b,a),
\* divide(multiply(a,b), b) = a, power(a,0) is dimensionless and
\* power(a,1) = a.
C2_AlgebraLaws ==
    /\ Dimension_eq(Dimension_mul(da, db), Dimension_mul(db, da))
    /\ Dimension_eq(Dimension_truediv(Dimension_mul(da, db), db), da)
    /\ Dimension_eq(Dimension_pow(da, 0), dimensionless)
    /\ Dimension_eq(Dimension_pow(da, 1), da)

\* mass * acceleration has been formed, and is the force dimension
C2_Witness == dop = "mul" /\ da = force /\ db = acceleration

(***************************************************************************)
(* Properties of the dimensional analysis                                  *)
(***************************************************************************)
\* mass = 10; time = 5; result = mass + time
Code1 ==
    <<Assign(<<"mass">>, Constant("int", 10), 1),
      Assign(<<"time">>, Constant("int", 5), 2),
      Assign(<<"result">>, BinOp(Name("mass"), "Add", Name("time")), 3)>>

\* mass = 10; accel = 9.8; force = mass * accel
Code2 ==
    <<Assign(<<"mass">>, Constant("int", 10), 1),
      Assign(<<"accel">>, Constant("float", 98), 2),
      Assign(<<"force">>, BinOp(Name("mass"), "Mult", Name("accel")), 3)>>

OfType(vs, ty) == {i \in 1..Len(vs) : vs[i].violation_type = ty}

\* C1: the analysis of Code1 reports exactly one incompatible_addition, of
\* severity critical, citing the mass and the time dimension.
C1_IncompatibleAddition ==
    (upc = "done" /\ prog = Code1) =>
        /\ Cardinality(OfType(violations, "incompatible_addition")) = 1
        /\ \A i \in OfType(violations, "incompatible_addition") :
               /\ violations[i].severity = "critical"
               /\ violations[i].left_dimension = mass
               /\ violations[i].right_dimension = time

\* C3: the analysis of Code2 reports nothing and registers for force the
\* product of the mass and acceleration dimensions, the force dimension.
C3_CleanMultiplication ==
    (upc = "done" /\ prog = Code2) =>
        /\ violations = <<>>
        /\ "force" \in DOMAIN type_environment
        /\ type_environment["force"] = Dimension_mul(mass, acceleration)
        /\ type_environment["force"] = force

\* The add/subtract nodes of an expression, in the order they are visited.
RECURSIVE AddSubNodes(_)
RECURSIVE AddSubNodesOfAll(_, _)
AddSubNodes(node) ==
    CASE node.k = "BinOp" ->
             (IF node.op \in {"Add", "Sub"} THEN <<node>> ELSE <<>>)
                 \o AddSubNodes(node.left) \o AddSubNodes(node.right)
      [] node.k = "Compare" ->
             AddSubNodes(node.left) \o AddSubNodesOfAll(node.comparators, 1)
      [] node.k = "Call" -> AddSubNodes(node.func) \o AddSubNodesOfAll(node.args, 1)
      [] node.k = "UnaryOp" -> AddSubNodes(node.operand)
      [] node.k = "Attribute" -> AddSubNodes(node.value)
      [] OTHER -> <<>>

AddSubNodesOfAll(nodes, i) ==
    IF i > Len(nodes) THEN <<>>
    ELSE AddSubNodes(nodes[i]) \o AddSubNodesOfAll(nodes, i + 1)

SelectAdditions(vs) == SelectSeq(vs, LAMBDA v : v.violation_type = "incompatible_addition")

\* What the add/subtract nodes of one statement must have produced, given
\* the environment the nodes were visited in.
RECURSIVE ExpectedAdditions(_, _, _, _)
ExpectedAdditions(nodes, env, line, i) ==
    IF i > Len(nodes) THEN <<>>
    ELSE LET l == infer_expression_dimension(nodes[i].left, env)
             r == infer_expression_dimension(nodes[i].right, env)
         IN  (IF l # NoDim /\ r # NoDim /\ l # r
              THEN <<UnitViolation("incompatible_addition", "critical", line,
                                   nodes[i], l, r)>>
              ELSE <<>>)
                 \o ExpectedAdditions(nodes, env, line, i + 1)

\* A statement has just been visited: the incompatible_addition violations
\* it added are one per add/subtract node with known, unequal operands, and
\* a node with an unknown operand has an unknown dimension.
C4_Step ==
    (Len(prog') = Len(prog) + 1 /\ prog'[Len(prog')].k = "Assign") =>
        LET node == prog'[Len(prog')]
            nodes == AddSubNodes(node.value)
            added == SubSeq(violations', Len(violations) + 1, Len(violations'))
        IN  /\ SelectAdditions(added)
                   = ExpectedAdditions(nodes, type_environment', node.lineno, 1)
            /\ \A i \in 1..Len(nodes) :
                   (\/ infer_expression_dimension(nodes[i].left, type_environment') = NoDim
                    \/ infer_expression_dimension(nodes[i].right, type_environment') = NoDim)
                       => infer_expression_dimension(nodes[i], type_environment') = NoDim

C4_BothKnown ==
    \A i \in 1..Len(violations) :
        violations[i].left_dimension # NoDim /\ violations[i].right_dimension # NoDim

\* C4: an add/subtract node yields an incompatible_addition (critical, with
\* both operand dimensions) exactly when both operand dimensions are known
\* and unequal; with an unknown operand it yields no violation and an
\* unknown result; every violation carries two known dimensions.
C4_AddSubtract == [][C4_Step]_vars /\ []C4_BothKnown

\* (mass + time) - result has been visited: one violation for the inner
\* node, none for the outer node whose right operand is unknown
C4_Witness ==
    /\ prog # <<>>
    /\ prog[Len(prog)].k = "Assign"
    /\ prog[Len(prog)].value
           = BinOp(BinOp(Name("mass"), "Add", Name("time")), "Sub", Name("result"))
    /\ "result" \notin DOMAIN type_environment
    /\ Len(SelectAdditions(violations)) = 1
    /\ violations[Len(violations)].expression = BinOp(Name("mass"), "Add", Name("time"))

\* The nesting depth of function definitions at position i of the program.
Depth(p, i) ==
    Cardinality({j \in 1..(i - 1) : p[j].k = "FunctionDef"})
        - Cardinality({j \in 1..(i - 1) : p[j].k = "end"})

\* The environment the module-level statements of p alone produce.
RECURSIVE ModuleLevelEnv(_, _, _)
ModuleLevelEnv(p, i, env) ==
    IF i > Len(p) THEN env
    ELSE IF p[i].k = "Assign" /\ Depth(p, i) = 0
    THEN ModuleLevelEnv(p, i + 1, visit_Assign([env |-> env, violations |-> <<>>], p[i]).env)
    ELSE ModuleLevelEnv(p, i + 1, env)

\* C5: once every function definition has been left, a lookup at module
\* level returns what the module-level statements registered (or what the
\* name suggests), never a registration made inside a function body.
C5_NoLeakOutward ==
    old_functions = <<>> =>
        \A name \in Targets :
            get_type(type_environment, name)
                = get_type(ModuleLevelEnv(prog, 1, <<>>), name)

(***************************************************************************)
(* The mirage detector's findings for the tree it was given                *)
(***************************************************************************)
\* The statement-level calls of a body with their line and enclosing function.
RECURSIVE Sites(_, _, _)
Sites(body, scope, i) ==
    IF i > Len(body) THEN {}
    ELSE (IF body[i].k = "FunctionDef"
          THEN Sites(body[i].body, body[i].name, 1)
          ELSE {[call |-> body[i].value, line |-> body[i].lineno, function |-> scope]})
             \cup Sites(body, scope, i + 1)

TreeSites == Sites(tree.body, None, 1)

\* op(v) of the numeric library on a bare identifier, op among ops
LibraryCallOn(call, ops) ==
    /\ call.func.k = "Attribute"
    /\ call.func.value = Name("np")
    /\ call.func.attr \in ops
    /\ Len(call.args) > 0
    /\ call.args[1].k = "Name"

\* std(v) or var(v) of the numeric library, or v.std() / v.var()
VarianceOn(call, v) ==
    /\ call.func.k = "Attribute"
    /\ call.func.attr \in {"std", "var"}
    /\ \/ call.func.value = Name("np") /\ call.args = <<Name(v)>>
       \/ call.func.value = Name(v)

\* The places of the returned list that report the call of a site of the tree.
ReportsOf(s) ==
    {i \in 1..Len(result) : result[i].node = NodeOf(tree.id, s.line, s.call)}

Reported(s) == ReportsOf(s) /= {}

\* A variance computation on the identifier of s in the scope of s, within
\* the context window.
VarianceNearby(s) ==
    \E w \in TreeSites :
        /\ VarianceOn(w.call, s.call.args[1].id)
        /\ w.function = s.function
        /\ Abs(w.line - s.line) <= VARIANCE_CONTEXT_LINES

\* Variance computations on the identifier of s exist, all of them inside
\* other functions.
VarianceElsewhereOnly(s) ==
    /\ \E w \in TreeSites : VarianceOn(w.call, s.call.args[1].id)
    /\ \A w \in TreeSites :
           VarianceOn(w.call, s.call.args[1].id) => w.function /= s.function

MeanSites == {s \in TreeSites : LibraryCallOn(s.call, {"mean"})}

C7_ReportedOnce ==
    ncalls > 0 =>
        \A s \in TreeSites :
            (/\ LibraryCallOn(s.call, CollapseOps)
             /\ s.function = None
             /\ ~VarianceNearby(s))
                => /\ Cardinality(ReportsOf(s)) = 1
                   /\ \A i \in ReportsOf(s) :
                          /\ result[i].line = s.line
                          /\ result[i].function = None
                          /\ result[i].type = s.call.func.attr

\* C8: no finding of the returned list is for a call of the analysed text
\* whose line carries the suppression marker.
C8_MarkerSuppresses ==
    \A s \in TreeSites : s.line \in marked => ~Reported(s)

\* C9: the list an analyze call returns is the list a new detector with the
\* same configuration returns for the tree of that call.
C9_OnlyThisTree ==
    ncalls > 0 =>
        result = analyze(MirageDetector(check_variance_context), tree).mirages

(***************************************************************************)
(* The transpiler's answer for a text with nothing to rewrite              *)
(***************************************************************************)
\* The calls a new detector flags in the text, filtered by the target line.
FlaggedIn(source, target_line) ==
    OnTargetLine(
        detector_visit_body(MirageDetector(TRUE), t_ncalls, parse(source), 1).mirages,
        target_line)

\* C10: after a transpile_source call on a text with no flagged call, or
\* none on the target line, the text returned is the text given and the
\* transformation list is empty.
C10_NothingToRewrite ==
    (t_ncalls > 0 /\ FlaggedIn(t_source, t_target) = <<>>)
        => t_output = t_source /\ transformations = <<>>

(***************************************************************************)
(* The text a rewriting transpile_source call returns                      *)
(***************************************************************************)
\* The assignment and expression statements of a body, at every depth.
RECURSIVE Stmts(_, _)
Stmts(body, i) ==
    IF i > Len(body) THEN {}
    ELSE (IF body[i].k = "FunctionDef" THEN Stmts(body[i].body, 1) ELSE {body[i]})
             \cup Stmts(body, i + 1)

StmtAt(body, line) == CHOOSE st \in Stmts(body, 1) : st.lineno = line

\* The findings the last call handed to the transformer.
Handed == OnTargetLine(t_mirages, t_target)

\* The last call took the rewriting path.
Rewrote == t_ncalls > 0 /\ Handed /= <<>>

\* The statements of the text whose call the last call flagged and handed on.
FlaggedStmts ==
    {st \in Stmts(t_source.body, 1) :
        \E i \in 1..Len(Handed) : Handed[i].node = NodeOf(t_ncalls, st.lineno, st.value)}

\* out is Wrapper(args, keywords).method('op')
IsWrapped(out, method, op, args, keywords) ==
    /\ out.k = "Call"
    /\ out.func.k = "Attribute"
    /\ out.func.attr = method
    /\ out.args = <<Constant("str", op)>>
    /\ out.keywords = <<>>
    /\ out.func.value.k = "Call"
    /\ out.func.value.func = Name("VariationTensor")
    /\ out.func.value.args = args
    /\ out.func.value.keywords = keywords

Targeted(st) ==
    \E i \in 1..Len(t_mirages) :
        /\ t_mirages[i].node = NodeOf(t_ncalls, st.lineno, st.value)
        /\ t_target = NoTarget \/ t_mirages[i].line = t_target

\* out is the call wrapped once: the wrapper holds the call's own arguments
\* and the operation is named by the outer method call.
WrappedOnce(out, call) ==
    /\ out /= call
    /\ \/ /\ call.func.k = "Attribute"
          /\ IsWrapped(out, "collapse", call.func.attr, call.args, call.keywords)
       \/ /\ call.func.k = "Name"
          /\ IsWrapped(out, "discretize", call.func.id, call.args, call.keywords)

\* The body written back differs from the body parsed only at the targeted
\* sites, each of which is wrapped once.
RECURSIVE OnlyTargetedRewritten(_, _, _)
OnlyTargetedRewritten(body, out, i) ==
    IF i > Len(body) THEN Len(out) = Len(body)
    ELSE /\ i <= Len(out)
         /\ IF body[i].k = "FunctionDef"
            THEN /\ out[i].k = "FunctionDef"
                 /\ out[i].name = body[i].name
                 /\ out[i].lineno = body[i].lineno
                 /\ OnlyTargetedRewritten(body[i].body, out[i].body, 1)
            ELSE IF Targeted(body[i])
            THEN /\ out[i].k = body[i].k
                 /\ out[i].lineno = body[i].lineno
                 /\ WrappedOnce(out[i].value, body[i].value)
                 /\ [out[i] EXCEPT !.value = body[i].value] = body[i]
            ELSE out[i] = body[i]
         /\ OnlyTargetedRewritten(body, out, i + 1)

Revisited(body) == detector_visit_body(MirageDetector(TRUE), 0, body, 1).mirages
Reanalyzed(body) == analyze(MirageDetector(TRUE), [id |-> 0, body |-> body]).mirages

\* Every finding of the first list that is not on the line is in the second
\* list too, with its kind, line and function.
StillReported(before, after, line) ==
    \A i \in 1..Len(before) :
        before[i].line /= line =>
            \E j \in 1..Len(after) :
                /\ after[j].type = before[i].type
                /\ after[j].line = before[i].line
                /\ after[j].function = before[i].function

AnalysisFindings ==
    SelectSeq(Reanalyzed(parse(t_source)),
              LAMBDA m : t_target = NoTarget \/ m.line = t_target)

\* C14, for the first call made on a new Transpiler: the statements the
\* call rewrites are the statements for which MirageDetector.analyze reports
\* a finding on the same text (filtered to the target line), and the records
\* of a rewrite are the records of those findings; a mean or sum call
\* suppressed by a variance computation in its scope and window is written
\* back as parsed and has no record.
C14_RewritesAreFindings ==
    t_ncalls = 1 =>
        /\ \A st \in Stmts(parse(t_source), 1) :
               (st \notin Stmts(parse(t_output), 1))
                   <=> \E i \in 1..Len(AnalysisFindings) :
                           AnalysisFindings[i].line = st.lineno
        /\ Rewrote => transformations = TransformationRecords(AnalysisFindings)

(***************************************************************************)
(* Assignments, parameters and calls in the dimensional analysis           *)
(***************************************************************************)
SelectMismatches(vs) == SelectSeq(vs, LAMBDA v : v.violation_type = "dimension_mismatch")

\* An assignment to a bare name has just been visited: the mismatch
\* violations it added and the registration it left.
C15_Step ==
    (Len(prog') = Len(prog) + 1 /\ prog'[Len(prog')].k = "Assign") =>
        LET node == prog'[Len(prog')]
            name == node.targets[1]
            implied == InferredFromName[name]
            rhs == infer_expression_dimension(node.value, type_environment)
            added == SubSeq(violations', Len(violations) + 1, Len(violations'))
            mismatches == SelectMismatches(added)
        IN  /\ Len(mismatches) = IF implied # NoDim /\ rhs # NoDim /\ implied # rhs
                                 THEN 1 ELSE 0
            /\ \A i \in 1..Len(mismatches) :
                   /\ mismatches[i].severity = "warning"
                   /\ mismatches[i].left_dimension = implied
                   /\ mismatches[i].right_dimension = rhs
            /\ rhs # NoDim => type_environment'[name] = rhs
            /\ (rhs = NoDim /\ implied # NoDim) => type_environment'[name] = implied
            /\ (rhs = NoDim /\ implied = NoDim)
                   => /\ name \in DOMAIN type_environment' <=> name \in DOMAIN type_environment
                      /\ get_type(type_environment', name) = get_type(type_environment, name)

\* A lookup of a registered name returns the registration.
C15_LookupPrefersRegistration ==
    \A name \in DOMAIN type_environment :
        get_type(type_environment, name) = type_environment[name]

\* C15: an assignment to a bare name emits a dimension_mismatch warning
\* naming both dimensions exactly when the name-implied and the right-hand
\* dimension are both known and unequal; the name is then registered with
\* the right-hand dimension when known, else with the name-implied one when
\* known, and lookups return the registered dimension, not the implied one.
C15_Assignment == [][C15_Step]_vars /\ []C15_LookupPrefersRegistration

\* mass = time has been visited: one warning naming [M] and [T], mass is
\* registered as a time and is looked up as a time
C15_Witness ==
    /\ prog # <<>>
    /\ prog[Len(prog)].k = "Assign"
    /\ prog[Len(prog)].targets = <<"mass">>
    /\ prog[Len(prog)].value = Name("time")
    /\ get_type(type_environment, "mass") = time
    /\ InferredFromName["mass"] = mass
    /\ violations # <<>>
    /\ violations[Len(violations)].violation_type = "dimension_mismatch"
    /\ violations[Len(violations)].left_dimension = mass
    /\ violations[Len(violations)].right_dimension = time

\* C16: when a function definition has just been entered, every parameter
\* is looked up with the dimension its own name implies; a parameter whose
\* name matches no constant and no pattern is unknown, whatever was
\* registered for that name before.
C16_ParametersByName ==
    (prog # <<>> /\ prog[Len(prog)].k = "FunctionDef") =>
        \A i \in 1..Len(prog[Len(prog)].args) :
            get_type(type_environment, prog[Len(prog)].args[i])
                = InferredFromName[prog[Len(prog)].args[i]]

\* The power nodes of an expression.
RECURSIVE PowNodes(_)
RECURSIVE PowNodesOfAll(_, _)
PowNodes(node) ==
    CASE node.k = "BinOp" ->
             (IF node.op = "Pow" THEN <<node>> ELSE <<>>)
                 \o PowNodes(node.left) \o PowNodes(node.right)
      [] node.k = "Call" -> PowNodes(node.func) \o PowNodesOfAll(node.args, 1)
      [] node.k = "UnaryOp" -> PowNodes(node.operand)
      [] node.k = "Attribute" -> PowNodes(node.value)
      [] OTHER -> <<>>

PowNodesOfAll(nodes, i) ==
    IF i > Len(nodes) THEN <<>>
    ELSE PowNodes(nodes[i]) \o PowNodesOfAll(nodes, i + 1)

\* C17: in every environment the analysis reaches, a power node of an
\* assigned expression whose base dimension is known and whose exponent is
\* a literal integer n is inferred as the base with every exponent
\* multiplied by n, and a power node whose exponent has a known dimension
\* other than the dimensionless one is inferred as unknown.
C17_PowerInference ==
    \A s \in 1..Len(prog) :
        prog[s].k = "Assign" =>
            LET nodes == PowNodes(prog[s].value)
            IN  \A i \in 1..Len(nodes) :
                    LET base == infer_expression_dimension(nodes[i].left, type_environment)
                        exponent == infer_expression_dimension(nodes[i].right, type_environment)
                        inferred == infer_expression_dimension(nodes[i], type_environment)
                    IN  /\ (/\ base # NoDim
                            /\ nodes[i].right.k = "Constant"
                            /\ nodes[i].right.ty = "int")
                               => inferred = Dimension_pow(base, nodes[i].right.v)
                        /\ (exponent # NoDim /\ ~is_dimensionless(exponent))
                               => inferred = NoDim

\* The exponents of a dimension halved, and whether halving was exact.
HalvedExponents(a) == Dimension([i \in 1..Len(a) |-> a[i] \div 2])

HalvingExact(a) == \A i \in 1..Len(a) : a[i] % 2 = 0

\* C18: when an assignment whose right-hand side is a call has just been
\* visited, a call of sqrt with an argument of known dimension is inferred
\* as the halved exponents of that dimension, a fractional_dimension
\* warning is among the violations the statement added exactly when some
\* exponent of the argument is odd, and a call of one of the other
\* dimensionless-producing functions is inferred as dimensionless.
C18_Step ==
    (/\ Len(prog') = Len(prog) + 1
     /\ prog'[Len(prog')].k = "Assign"
     /\ prog'[Len(prog')].value.k = "Call") =>
        LET node == prog'[Len(prog')].value
            func_name == get_func_name(node)
            added == SubSeq(violations', Len(violations) + 1, Len(violations'))
            inferred == infer_expression_dimension(node, type_environment)
        IN  /\ (func_name = "sqrt" /\ Len(node.args) > 0) =>
                   LET arg_dim == infer_expression_dimension(node.args[1], type_environment)
                   IN  arg_dim # NoDim =>
                           /\ inferred = HalvedExponents(arg_dim)
                           /\ ~HalvingExact(arg_dim) <=>
                                  \E v \in 1..Len(added) :
                                      /\ added[v].violation_type = "fractional_dimension"
                                      /\ added[v].severity = "warning"
                                      /\ added[v].line = prog'[Len(prog')].lineno
            /\ func_name \in {"sin", "cos", "tan", "exp", "log", "abs",
                              "ceil", "floor", "round"}
                   => inferred = dimensionless

C18_SquareRoot == [][C18_Step]_vars

(***************************************************************************)
(* Properties of rendering and of the summary                              *)
(***************************************************************************)
\* The places of the exponents tuple that are not zero.
NonZero(d) == {i \in 1..Len(d) : d[i] # 0}

\* A rendering lists exactly the symbols with a non-zero exponent, once
\* each, and gives the exponent unless it is 1.
ListsNonZero(d, r) ==
    /\ Len(r) = Cardinality(NonZero(d))
    /\ \A i \in NonZero(d) :
           \E j \in 1..Len(r) :
               r[j] = IF d[i] = 1 THEN <<symbols[i]>> ELSE <<symbols[i], d[i]>>

\* C19: the rendering of the dimension da lists only the symbols with a
\* non-zero exponent and omits an exponent of 1; the all-zero vector is
\* rendered [1], a pure length shows the length symbol only, and
\* mass * length^2 * time^-2 is rendered [M L^2 T^-2].
C19_Rendering ==
    LET r == Dimension_str(da)
    IN  /\ NonZero(da) = {} => r = <<(<<"1">>)>>
        /\ NonZero(da) # {} => ListsNonZero(da, r)
        /\ NonZero(da) = {1} => \A j \in 1..Len(r) : r[j][1] = "L"
        /\ da = energy => r = <<(<<"M">>), <<"L", 2>>, <<"T", -2>>>>

Criticals == SelectSeq(violations, LAMBDA v : v.severity = "critical")

Warnings == SelectSeq(violations, LAMBDA v : v.severity = "warning")

\* C20: when analyze has returned for a parsed module, the verdict of its
\* summary is FAIL exactly when a critical violation was emitted, WARNING
\* exactly when none was critical and some was a warning, and PASS exactly
\* when nothing was emitted; the critical and warning counts are the
\* numbers of violations of those severities and add up to the total.
C20_Summary ==
    upc = "done" =>
        LET summary == analysis.summary
        IN  /\ summary.verdict = "FAIL" <=> Criticals # <<>>
            /\ summary.verdict = "WARNING" <=> (Criticals = <<>> /\ Warnings # <<>>)
            /\ summary.verdict = "PASS" <=> violations = <<>>
            /\ summary.critical_count = Len(Criticals)
            /\ summary.warning_count = Len(Warnings)
            /\ summary.critical_count + summary.warning_count = summary.total_violations
            /\ summary.total_violations = Len(violations)

\* analyze has returned WARNING for a module with a warning and no critical
\* violation
C20_Witness ==
    /\ upc = "done"
    /\ prog # <<>>
    /\ Criticals = <<>>
    /\ Warnings # <<>>
    /\ analysis.summary.verdict = "WARNING"
    /\ analysis.summary.warning_count = Len(analysis.violations)

(***************************************************************************)
(* Properties of analyze on sources that do not parse                      *)
(***************************************************************************)
C21_ErrorOutcome ==
    upc = "error" =>
        /\ analysis.error = "Syntax error"
        /\ analysis.violations = <<>>
        /\ analysis.inferred_dimensions = <<>>
        /\ analysis.summary = None

C21_NoTraversal ==
    upc' = "error" => UNCHANGED <<prog, type_environment, violations>>

\* C21: when analyze has returned for a source that does not parse, what it
\* returned is the error outcome with the syntax-error message, no
\* violations, no dimensions and no summary, whatever violations an earlier
\* analysis on the same UnitGuard left in its analyzer; the call visits no
\* statement and adds no violation.
C21_SyntaxError == []C21_ErrorOutcome /\ [][C21_NoTraversal]_vars

\* a source that does not parse was analysed after one whose analysis
\* reported a violation and typed a variable
C21_Witness ==
    /\ upc = "error"
    /\ violations # <<>>
    /\ DOMAIN type_environment # {}
    /\ analysis.violations = <<>>

(***************************************************************************)
(* The transformation list after a rewrite                                 *)
(***************************************************************************)
\* The statements of the text that the last call returned changed.
RewrittenSites ==
    {st \in Stmts(t_source.body, 1) : StmtAt(t_output.body, st.lineno) # st}

\* The findings handed on whose call is a rewritten site of this text, in
\* the order they were handed on.
RewrittenFindings ==
    SelectSeq(Handed,
              LAMBDA m : \E st \in RewrittenSites :
                             m.node = NodeOf(t_ncalls, st.lineno, st.value))

\* C22: after a rewriting transpile_source call the transformation list is
\* the list of records of the sites rewritten in this call, one per site
\* and in the order of the findings, with the finding's type, line and
\* function; nothing of an earlier call and no site left as it was is in it.
C22_RecordsOfThisCall ==
    Rewrote =>
        /\ Len(RewrittenFindings) = Cardinality(RewrittenSites)
        /\ transformations = TransformationRecords(RewrittenFindings)

(***************************************************************************)
(* The cost of the dimensional analysis                                    *)
(***************************************************************************)
\* result = mass + time: one binary operation on two names.
OneOperation == Assign(<<"result">>, BinOp(Name("mass"), "Add", Name("time")), 1)

\* C23: however deeply the sub-expressions of a visited assignment are
\* nested, none of them is typed more often than an operand of an
\* assignment holding a single binary operation, so the typing steps of a
\* statement are linear in its nodes.
C23_LinearWalk ==
    \A s \in 1..Len(prog) :
        prog[s].k = "Assign" =>
            most_typed_Assign(prog[s]) <= most_typed_Assign(OneOperation)

(***************************************************************************)
(* Suppression by variance context, and the scope of a finding             *)
(***************************************************************************)
\* op(...) of the numeric library, op among ops, whose first argument is
\* missing or is not a bare identifier
LibraryCallOnExpression(call, ops) ==
    /\ call.func.k = "Attribute"
    /\ call.func.value = Name("np")
    /\ call.func.attr \in ops
    /\ (Len(call.args) = 0 \/ call.args[1].k # "Name")

\* C24: in the list an analysis returned, a mean or sum call on a bare
\* identifier is missing exactly when variance-context checking is enabled
\* and a std/var computation on that identifier lies in the same scope at
\* most VARIANCE_CONTEXT_LINES lines before or after it; an argmax or argmin
\* call is always reported, and so is a collapsing call whose argument is
\* not a bare identifier.
C24_SuppressedExactly ==
    ncalls > 0 =>
        \A s \in TreeSites :
            /\ LibraryCallOn(s.call, {"mean", "sum"})
                   => (~Reported(s) <=> (check_variance_context /\ VarianceNearby(s)))
            /\ LibraryCallOn(s.call, {"argmax", "argmin"}) => Reported(s)
            /\ LibraryCallOnExpression(s.call, CollapseOps) => Reported(s)

\* mean(x) with std(x) exactly VARIANCE_CONTEXT_LINES lines below it, on a
\* detector that checks the variance context: the mean is not reported
C24_Witness ==
    /\ ncalls > 0
    /\ check_variance_context
    /\ tree.body = <<Expr(NpCall("mean", Name("x")), 1),
                     Expr(NpCall("std", Name("x")), 1 + VARIANCE_CONTEXT_LINES)>>
    /\ result = <<>>

\* The statement-level variance computations of the tree.
VarianceSites ==
    {w \in TreeSites : w.call.func.k = "Attribute" /\ w.call.func.attr \in VARIANCE_OPS}

\* C25: when an analysis has returned, the detector's scope is null again,
\* every finding for a call of the tree carries the name of the innermost
\* function definition around the call, null at module level (a call that
\* follows a nested definition belongs to the outer function), and the
\* variance computations were recorded under the same scopes.
C25_ScopeStack ==
    ncalls > 0 =>
        /\ det_function = None
        /\ \A s \in TreeSites :
               \A i \in ReportsOf(s) : result[i].function = s.function
        /\ check_variance_context =>
               /\ \A w \in VarianceSites :
                      \E key \in DOMAIN variance_contexts :
                          key[2] = w.function /\ w.line \in variance_contexts[key]
               /\ \A key \in DOMAIN variance_contexts :
                      \A l \in variance_contexts[key] :
                          \E w \in VarianceSites : w.line = l /\ w.function = key[2]

\* def f(): def g(): std(x); then mean(x) in f: the mean is reported for f,
\* the std is recorded for g
C25_Witness ==
    /\ ncalls > 0
    /\ check_variance_context
    /\ tree.body = <<FunctionDef("f", 1,
                        <<FunctionDef("g", 2, <<Expr(NpCall("std", Name("x")), 3)>>),
                          Expr(NpCall("mean", Name("x")), 4)>>)>>
    /\ \E i \in 1..Len(result) :
           /\ result[i].node = NodeOf(tree.id, 4, NpCall("mean", Name("x")))
           /\ result[i].function = "f"
    /\ <<"x", "g">> \in DOMAIN variance_contexts

(***************************************************************************)
(* Properties of ScilintFixer.fix_file                                     *)
(***************************************************************************)
\* The lines the last call would have left had the fixer not been a dry run.
WouldLeave ==
    fix_file([TheFixer EXCEPT !.dry_run = FALSE], f_before, f_violations,
             f_responses).lines

\* C26: fix_file returns True exactly when the call changed a line of the
\* file or, in a dry run, would have changed one; it returns False when
\* nothing was or would be changed, as when every fix is declined or the
\* violation's line is outside the file.
C26_ReturnsWhetherChanged ==
    f_ncalls > 0 =>
        (f_returned <=> IF dry_run THEN WouldLeave # f_before
                        ELSE f_lines # f_before)

\* The last call changed only lines that a 'mean' violation names, kept the
\* number of lines, and wrote nothing in a dry run.
C30_Confined ==
    f_ncalls > 0 =>
        /\ Len(f_lines) = Len(f_before)
        /\ \A i \in 1..Len(f_lines) :
               f_lines[i] # f_before[i] =>
                   \E v \in 1..Len(f_violations) :
                       f_violations[v].type = "mean" /\ f_violations[v].line = i
        /\ dry_run => (~f_wrote /\ f_lines = f_before)

\* A call that repeats the violations and answers of the call before it
\* leaves the file as that call left it.
C30_SecondApplication ==
    (f_ncalls > 0 /\ f_ncalls' = f_ncalls + 1
     /\ f_violations' = f_violations /\ f_responses' = f_responses)
        => f_lines' = f_lines

\* C30: fix_file is idempotent and confined: applied again with the same
\* violations it leaves the file as the first application left it, and
\* each application changes only lines named by 'mean' violations, keeps
\* the number of lines and writes nothing in a dry run.
C30_IdempotentConfined == []C30_Confined /\ [][C30_SecondApplication]_vars

(***************************************************************************)
(* Properties of the agent tools                                           *)
(***************************************************************************)
\* C27: with the mirage, unit and leakage checks enabled, as they are by
\* default, the verifier answers VERIFICATION PASSED, and signs a PASS
\* certificate, only for code that parses, on which no check raised and
\* for which the checks found no issue.
C27_PassedOnlyWhenChecked ==
    (tool_name = "demyst_verify" /\ tool_rules = RuleNames
     /\ (tool_out.text = "VERIFICATION PASSED" \/ tool_out.certificate = "PASS"))
        => /\ tool_code.parses
           /\ tool_leakage = "clean"
           /\ tool_out.issues = <<>>

\* C28: check_units answers consistent = true only for code that parses
\* and whose analysis found no violation; for code that does not parse it
\* answers with an error, as detect_mirage does.
C28_ConsistentOnlyWhenAnalysed ==
    /\ (tool_name = "check_units" /\ "consistent" \in DOMAIN tool_out
        /\ tool_out.consistent)
           => /\ tool_code.parses
              /\ UnitGuard_analyze(tool_code).violations = <<>>
    /\ (tool_name \in {"check_units", "detect_mirage"} /\ ~tool_code.parses)
           => "error" \in DOMAIN tool_out

\* C29: every operation the detector flags and the rewrite emits is one
\* the wrapper supports: collapse(op) returns for mean, sum, argmax and
\* argmin on a tensor whose axis fits its data, and discretize exists; a
\* call that fails leaves the variation history as it was and a call that
\* returns appends exactly one record.
C29_EmittedOperationsSupported ==
    /\ (vt_op = "collapse" /\ vt_arg \in CollapseOps /\ AxisValid(vt_shape, vt_axis))
           => vt_outcome = "returned"
    /\ (vt_op = "discretize" /\ vt_arg \in DiscretizeKinds)
           => vt_outcome # "AttributeError"
    /\ (vt_op # "__init__" /\ vt_outcome # "returned") => vt_history = vt_before
    /\ (vt_op # "__init__" /\ vt_outcome = "returned")
           => /\ Len(vt_history) = Len(vt_before) + 1
              /\ SubSeq(vt_history, 1, Len(vt_before)) = vt_before

====
